---------------------------- MODULE Spec2Model ----------------------------
(***************************************************************************)
(* A model of the chip-eight interpreter: the executor loop of             *)
(* ChipEight::play (src/src/system.rs), the 60 Hz display ticker it spawns,*)
(* the two Timer workers (src/src/timer.rs), the bounds-checked Memory     *)
(* (src/src/memory.rs) and the opcode decoder                              *)
(* (src/src/core/instructions.rs).                                         *)
(***************************************************************************)
EXTENDS Integers, Sequences, FiniteSets, TLC

(***************************************************************************)
(* Bounds of the model.  The memory and the display are configurable in    *)
(* the program (config.rs, Args); the model runs a scaled-down machine.    *)
(***************************************************************************)
\* config.memory.length
MemLength == 128
\* config.memory.font_start
FontStart == 0
\* config.memory.program_start
ProgramStart == 80
\* config.display.width
DisplayWidth == 8
\* config.display.height
DisplayHeight == 4
\* the most events the model lets wait in the (unbounded) device channel
MaxChan == 3

(***************************************************************************)
(* Program constants.                                                      *)
(***************************************************************************)
\* u8: values are kept modulo 2^8
ByteMod == 256
\* v: [u8; 16]
NumRegs == 16

Byte == 0 .. (ByteMod - 1)
Regs == 0 .. (NumRegs - 1)
VF == NumRegs - 1

(***************************************************************************)
(* 8-bit arithmetic as the u8 operations compute it.                       *)
(***************************************************************************)
RECURSIVE Pow2(_)
Pow2(k) == IF k = 0 THEN 1 ELSE 2 * Pow2(k - 1)

BitOf(b, k) == (b \div Pow2(k)) % 2

\* u8::wrapping_add
WrappingAdd(a, b) == (a + b) % ByteMod

\* u8::overflowing_add: (result, overflowed)
OverflowingAdd(a, b) == [result |-> (a + b) % ByteMod, overflowed |-> (a + b) >= ByteMod]

\* u8::overflowing_sub: (result, overflowed)
OverflowingSub(a, b) == [result |-> (a - b + ByteMod) % ByteMod, overflowed |-> a < b]

RECURSIVE BitCombine(_, _, _, _)
BitCombine(f, a, b, k) ==
    IF k < 0 THEN 0
    ELSE (IF f[<<BitOf(a, k), BitOf(b, k)>>] THEN Pow2(k) ELSE 0) + BitCombine(f, a, b, k - 1)

BitPairs == {<<0, 0>>, <<0, 1>>, <<1, 0>>, <<1, 1>>}
\* u8 | u8
BitOr(a, b) == BitCombine([p \in BitPairs |-> p[1] = 1 \/ p[2] = 1], a, b, 7)
\* u8 & u8
BitAnd(a, b) == BitCombine([p \in BitPairs |-> p[1] = 1 /\ p[2] = 1], a, b, 7)
\* u8 ^ u8
BitXor(a, b) == BitCombine([p \in BitPairs |-> p[1] # p[2]], a, b, 7)
\* u8 >> 1
Shr1(a) == a \div 2
\* u8 << 1 (the bit shifted out is lost)
Shl1(a) == (a * 2) % ByteMod

RECURSIVE ReverseFrom(_, _)
ReverseFrom(b, k) ==
    IF k > 7 THEN 0 ELSE BitOf(b, k) * Pow2(7 - k) + ReverseFrom(b, k + 1)
\* u8::reverse_bits
\* a byte taken as it is, lowest bit first
NoReverse(b) == b

ReverseBits(b) == ReverseFrom(b, 0)

(***************************************************************************)
(* Memory (src/src/memory.rs): a byte vector with bounds-checked access.   *)
(* A result is a record with ok = TRUE and the value, or ok = FALSE and    *)
(* the MemoryError.                                                        *)
(***************************************************************************)
\* the largest usize: the 2^64 - 1 of the program's targets, scaled down
UsizeMax == 1073741823

VARIABLE
    overflow_checks    \* the build: arithmetic overflow panics (debug) or wraps (release)

\* a + b in usize, wrapped as a build without overflow checks computes it
WrappedSum(a, b) == (a + b) % (UsizeMax + 1)

\* an integer overflow, or a slice index out of order: the thread panics
Panic(message) == <<"Panic", message>>

\* Memory::new: vec![0; length]
MemoryNew(length) == [a \in 0 .. (length - 1) |-> 0]

\* Memory::is_in_bounds
IsInBounds(buffer, addr) == addr < Cardinality(DOMAIN buffer)

\* Memory::read_byte
ReadByte(buffer, addr) ==
    IF ~IsInBounds(buffer, addr)
    THEN [ok |-> FALSE, err |-> <<"AddrOutOfBounds", addr>>]
    ELSE [ok |-> TRUE, val |-> buffer[addr]]

\* the outcome of the range check addr + (len - 1) of read_buf and write_buf for
\* len >= 1: "ok", or the error.  When the sum passes usize::MAX a build with
\* overflow checks panics at the addition; a build without them wraps it, and
\* a wrapped sum that is in bounds then fails at the slice addr..addr + len,
\* whose start lies after its end.
RangeCheck(buffer, addr, len) ==
    IF addr + (len - 1) > UsizeMax
    THEN IF overflow_checks THEN Panic("attempt to add with overflow")
         ELSE IF ~IsInBounds(buffer, WrappedSum(addr, len - 1))
         THEN <<"RangeOutOfBounds", addr, len>>
         ELSE Panic("slice index starts after its end")
    ELSE IF ~IsInBounds(buffer, addr + (len - 1))
    THEN <<"RangeOutOfBounds", addr, len>>
    ELSE <<"ok">>

\* Memory::read_buf
ReadBuf(buffer, addr, len) ==
    IF len < 1 THEN [ok |-> TRUE, val |-> <<>>]
    ELSE IF RangeCheck(buffer, addr, len) # <<"ok">>
    THEN [ok |-> FALSE, err |-> RangeCheck(buffer, addr, len)]
    ELSE [ok |-> TRUE, val |-> [k \in 1 .. len |-> buffer[addr + k - 1]]]

\* Memory::write_byte
WriteByte(buffer, addr, data) ==
    IF ~IsInBounds(buffer, addr)
    THEN [ok |-> FALSE, err |-> <<"AddrOutOfBounds", addr>>, buffer |-> buffer]
    ELSE [ok |-> TRUE, buffer |-> [buffer EXCEPT ![addr] = data]]

\* a write_buf with no early return for an empty slice
WriteBufUnguarded(buffer, addr, data) ==
    IF RangeCheck(buffer, addr, Len(data)) # <<"ok">>
    THEN [ok |-> FALSE, err |-> RangeCheck(buffer, addr, Len(data)), buffer |-> buffer]
    ELSE [ok |-> TRUE,
          buffer |-> [a \in DOMAIN buffer |->
                        IF addr <= a /\ a < addr + Len(data)
                        THEN data[a - addr + 1] ELSE buffer[a]]]

\* a write_buf that also overwrites the byte after its range
WriteBufInclusive(buffer, addr, data) ==
    IF Len(data) < 1 THEN [ok |-> TRUE, buffer |-> buffer]
    ELSE IF RangeCheck(buffer, addr, Len(data)) # <<"ok">>
    THEN [ok |-> FALSE, err |-> RangeCheck(buffer, addr, Len(data)), buffer |-> buffer]
    ELSE [ok |-> TRUE,
          buffer |-> [a \in DOMAIN buffer |->
                        IF addr <= a /\ a < addr + Len(data)
                        THEN data[a - addr + 1]
                        ELSE IF a = addr + Len(data) THEN data[Len(data)] ELSE buffer[a]]]

\* Memory::write_buf
WriteBuf(buffer, addr, data) ==
    IF Len(data) < 1 THEN [ok |-> TRUE, buffer |-> buffer]
    ELSE IF RangeCheck(buffer, addr, Len(data)) # <<"ok">>
    THEN [ok |-> FALSE, err |-> RangeCheck(buffer, addr, Len(data)), buffer |-> buffer]
    ELSE [ok |-> TRUE,
          buffer |-> [a \in DOMAIN buffer |->
                        IF addr <= a /\ a < addr + Len(data)
                        THEN data[a - addr + 1] ELSE buffer[a]]]

(***************************************************************************)
(* The decoder (src/src/core/instructions.rs, Instruction::try_from).  An  *)
(* instruction is its variant tag with the operand fields the variant      *)
(* carries, in order.                                                      *)
(***************************************************************************)

OpType(opcode) == (opcode \div 4096) % 16
FieldX(opcode) == (opcode \div 256) % 16
FieldY(opcode) == (opcode \div 16) % 16
FieldNNN(opcode) == opcode % 4096
FieldNN(opcode) == opcode % 256
FieldN(opcode) == opcode % 16

Instr(tag, fields) == [ok |-> TRUE, op |-> tag, args |-> fields]
InvalidOpcodeError(opcode) == [ok |-> FALSE, op |-> "InvalidOpcode", args |-> <<opcode>>]

Decode(opcode) ==
    LET x == FieldX(opcode)
        y == FieldY(opcode)
        nnn == FieldNNN(opcode)
        nn == FieldNN(opcode)
        n == FieldN(opcode)
    IN CASE OpType(opcode) = 0 ->
              (CASE nn = 224 -> Instr("Clear", <<>>)
                 [] nn = 238 -> Instr("Return", <<>>)
                 [] OTHER -> InvalidOpcodeError(opcode))
         [] OpType(opcode) = 1 -> Instr("Jump", <<nnn>>)
         [] OpType(opcode) = 2 -> Instr("Call", <<nnn>>)
         [] OpType(opcode) = 3 -> Instr("IfVxEq", <<x, nn>>)
         [] OpType(opcode) = 4 -> Instr("IfVxNotEq", <<x, nn>>)
         [] OpType(opcode) = 5 -> Instr("IfVxEqVy", <<x, y>>)
         [] OpType(opcode) = 6 -> Instr("SetVx", <<x, nn>>)
         [] OpType(opcode) = 7 -> Instr("AddToVx", <<x, nn>>)
         [] OpType(opcode) = 8 ->
              (CASE n = 0 -> Instr("SetVxToVy", <<x, y>>)
                 [] n = 1 -> Instr("SetVxOrVy", <<x, y>>)
                 [] n = 2 -> Instr("SetVxAndVy", <<x, y>>)
                 [] n = 3 -> Instr("SetVxXorVy", <<x, y>>)
                 [] n = 4 -> Instr("AddVyToVx", <<x, y>>)
                 [] n = 5 -> Instr("SubVyFromVx", <<x, y>>)
                 [] n = 6 -> Instr("RightShiftVx", <<x>>)
                 [] n = 7 -> Instr("SubVxFromVy", <<x, y>>)
                 [] n = 14 -> Instr("LeftShiftVx", <<x>>)
                 [] OTHER -> InvalidOpcodeError(opcode))
         [] OpType(opcode) = 9 -> Instr("IfVxNotEqVy", <<x, y>>)
         [] OpType(opcode) = 10 -> Instr("SetI", <<nnn>>)
         [] OpType(opcode) = 11 -> Instr("JumpWithOffset", <<nnn>>)
         [] OpType(opcode) = 12 -> Instr("SetVxRand", <<x, nn>>)
         [] OpType(opcode) = 13 -> Instr("Draw", <<x, y, n>>)
         [] OpType(opcode) = 14 ->
              (CASE nn = 158 -> Instr("IfKeyPressed", <<x>>)
                 [] nn = 161 -> Instr("IfKeyNotPressed", <<x>>)
                 [] OTHER -> InvalidOpcodeError(opcode))
         [] OpType(opcode) = 15 ->
              (CASE nn = 7 -> Instr("SetVxToDelay", <<x>>)
                 [] nn = 10 -> Instr("SetVxToKey", <<x>>)
                 [] nn = 21 -> Instr("SetDelayToVx", <<x>>)
                 [] nn = 24 -> Instr("SetSoundToVx", <<x>>)
                 [] nn = 30 -> Instr("AddVxToI", <<x>>)
                 [] nn = 41 -> Instr("SetIToCharInVx", <<x>>)
                 [] nn = 51 -> Instr("StoreVxBCDAtI", <<x>>)
                 [] nn = 85 -> Instr("VDump", <<x>>)
                 [] nn = 101 -> Instr("VLoad", <<x>>)
                 [] OTHER -> InvalidOpcodeError(opcode))
         [] OTHER -> InvalidOpcodeError(opcode)

(***************************************************************************)
(* The arm of the execute! dispatch (src/src/system.rs 163-438) an opcode  *)
(* matches: a hex digit of the pattern matches itself, X, Y and N match    *)
(* any nibble.  "none" when no arm matches.                                *)
(***************************************************************************)
Arm(opcode) ==
    LET t == OpType(opcode)
        nn == FieldNN(opcode)
        n == FieldN(opcode)
    IN CASE opcode = 224 -> "00E0"
         [] opcode = 238 -> "00EE"
         [] t = 1 -> "1NNN"
         [] t = 2 -> "2NNN"
         [] t = 3 -> "3XNN"
         [] t = 4 -> "4XNN"
         [] t = 5 /\ n = 0 -> "5XY0"
         [] t = 6 -> "6XNN"
         [] t = 7 -> "7XNN"
         [] t = 8 /\ n = 0 -> "8XY0"
         [] t = 8 /\ n = 1 -> "8XY1"
         [] t = 8 /\ n = 2 -> "8XY2"
         [] t = 8 /\ n = 3 -> "8XY3"
         [] t = 8 /\ n = 4 -> "8XY4"
         [] t = 8 /\ n = 5 -> "8XY5"
         [] t = 8 /\ n = 6 -> "8XY6"
         [] t = 8 /\ n = 7 -> "8XY7"
         [] t = 8 /\ n = 14 -> "8XYE"
         [] t = 9 /\ n = 0 -> "9XY0"
         [] t = 10 -> "ANNN"
         [] t = 11 -> "BNNN"
         [] t = 12 -> "CXNN"
         [] t = 13 -> "DXYN"
         [] t = 14 /\ nn = 158 -> "EX9E"
         [] t = 14 /\ nn = 161 -> "EXA1"
         [] t = 15 /\ nn = 7 -> "FX07"
         [] t = 15 /\ nn = 10 -> "FX0A"
         [] t = 15 /\ nn = 21 -> "FX15"
         [] t = 15 /\ nn = 24 -> "FX18"
         [] t = 15 /\ nn = 30 -> "FX1E"
         [] t = 15 /\ nn = 41 -> "FX29"
         [] t = 15 /\ nn = 51 -> "FX33"
         [] t = 15 /\ nn = 85 -> "FX55"
         [] t = 15 /\ nn = 101 -> "FX65"
         [] OTHER -> "none"

(***************************************************************************)
(* The sprite blit of DXYN (src/src/system.rs 296-331).  acc holds the     *)
(* frame buffer and VF as the loops update them; d is the display          *)
(* geometry with the wrap_sprites quirk.                                   *)
(***************************************************************************)
RECURSIVE BlitPositions(_, _, _, _, _, _)
BlitPositions(acc, d, byte, x, current_y, position) ==
    IF position > 7 THEN acc
    ELSE IF ~d.wrap /\ x + position >= d.width THEN acc
    ELSE LET current_x == IF d.wrap THEN (x + position) % d.width ELSE x + position
             bit == BitOf(ReverseBits(byte), position)
             index == current_y * d.width + current_x
             drawn == IF bit # 0 /\ index \in DOMAIN acc.fb
                      THEN [fb |-> [acc.fb EXCEPT ![index] = ~acc.fb[index]],
                            vf |-> IF acc.fb[index] THEN 1 ELSE acc.vf]
                      ELSE acc
         IN BlitPositions(drawn, d, byte, x, current_y, position + 1)

RECURSIVE BlitLayers(_, _, _, _, _, _)
BlitLayers(acc, d, sprite, x, y, layer) ==
    IF layer >= Len(sprite) THEN acc
    ELSE IF ~d.wrap /\ y + layer >= d.height THEN acc
    ELSE LET current_y == IF d.wrap THEN (y + layer) % d.height ELSE y + layer
         IN BlitLayers(BlitPositions(acc, d, sprite[layer + 1], x, current_y, 0),
                       d, sprite, x, y, layer + 1)

(***************************************************************************)
(* One instruction (src/src/system.rs 159-438).  s is the executor's own   *)
(* state [pc, v, i, stack, memory, frame_buffer]; the result is the state  *)
(* afterwards with what the instruction asks of the rest of the machine:   *)
(* where the executor goes next, the event it sends, the timer it sets.    *)
(***************************************************************************)
Step(s) ==
    [s |-> s, status |-> "ok", failure |-> <<>>, next |-> "guard",
     send |-> <<>>, set |-> <<>>, key |-> <<>>]

Fatal(s, kind) == [Step(s) EXCEPT !.status = "panic", !.failure = kind]

\* a RET that carries on from address 0 when the stack is empty
ReturnOrZero(s) ==
    IF Len(s.stack) = 0 THEN Step([s EXCEPT !.pc = 0])
    ELSE Step([s EXCEPT !.pc = s.stack[Len(s.stack)],
                        !.stack = SubSeq(s.stack, 1, Len(s.stack) - 1)])

\* 00EE: self.pc = self.stack.pop().expect(...)
Return(s) ==
    IF Len(s.stack) = 0 THEN Fatal(s, <<"StackUnderflow">>)
    ELSE Step([s EXCEPT !.pc = s.stack[Len(s.stack)],
                        !.stack = SubSeq(s.stack, 1, Len(s.stack) - 1)])

\* a CALL that pushes the address of the CALL itself
CallPushesOwnAddress(s, nnn) ==
    Step([s EXCEPT !.stack = Append(s.stack, s.pc - 2), !.pc = nnn])

\* 2NNN: self.stack.push(self.pc); self.pc = $NNN  (pc is already past the CALL)
Call(s, nnn) == Step([s EXCEPT !.stack = Append(s.stack, s.pc), !.pc = nnn])

\* a skip that is taken whatever the condition
SkipAlways(s, cond) == Step([s EXCEPT !.pc = s.pc + 2])

\* if <condition> { self.pc += 2; }
SkipIf(s, cond) == Step(IF cond THEN [s EXCEPT !.pc = s.pc + 2] ELSE s)

\* a register write that also blanks the display
SetVBlanks(s, x, val) ==
    [s EXCEPT !.v[x] = val, !.frame_buffer = [c \in DOMAIN s.frame_buffer |-> FALSE]]

SetV(s, x, val) == [s EXCEPT !.v[x] = val]

\* a BNNN that always takes V0
JumpOffsetV0(s, q, nnn) == s.v[0]

\* BNNN: the register added to nnn is V[(nnn >> 8) & 0xF] under jump_with_vx,
\* else V0
JumpOffset(s, q, nnn) == IF q.jump_with_vx THEN s.v[(nnn \div 256) % 16] ELSE s.v[0]

\* a logic instruction that never resets VF
LogicKeepsFlag(s, q, x, val) == Step(SetV(s, x, val))

\* 8XY1, 8XY2, 8XY3: the result, then VF unless skip_reset_vf
Logic(s, q, x, val) ==
    LET r == SetV(s, x, val)
    IN Step(IF ~q.skip_reset_vf THEN SetV(r, VF, 0) ELSE r)

\* the flag written first, then the result
ArithFlagFirst(s, x, res, flag) ==
    Step(SetV(SetV(s, VF, IF flag THEN 1 ELSE 0), x, res.result))

\* 8XY4, 8XY5, 8XY7: the result, then the flag
Arith(s, x, res, flag) == Step(SetV(SetV(s, x, res.result), VF, IF flag THEN 1 ELSE 0))

\* a shift that writes the bit first, then the result
ShiftFlagFirst(s, x, res, bit) == Step(SetV(SetV(s, VF, bit), x, res))

\* 8XY6, 8XYE: the result, then the bit shifted out
Shift(s, x, res, bit) == Step(SetV(SetV(s, x, res), VF, bit))

\* a shift that always takes V[x]
ShiftInPlace(q, x, y) == x

\* 8XY6 / 8XYE: the register shifted is X under skip_shift_set, else Y
ShiftReg(q, x, y) == IF q.skip_shift_set THEN x ELSE y

\* a DXYN that leaves VF as it was when no collision happens
DrawKeepsFlag(s, cfg, x_reg, y_reg, n) ==
    LET x == s.v[x_reg] % cfg.display.width
        y == s.v[y_reg] % cfg.display.height
        sprite == ReadBuf(s.memory, s.i, n)
        d == [width |-> cfg.display.width, height |-> cfg.display.height,
              wrap |-> cfg.quirks.wrap_sprites]
    IN IF ~sprite.ok THEN Fatal(s, sprite.err)
       ELSE LET done == BlitLayers([fb |-> s.frame_buffer, vf |-> s.v[VF]], d,
                                   sprite.val, x, y, 0)
                after == [s EXCEPT !.frame_buffer = done.fb, !.v[VF] = done.vf]
            IN [Step(after) EXCEPT
                  !.next = IF ~cfg.quirks.skip_draw_wait THEN "drawwait" ELSE "guard"]

\* a DXYN that wraps whatever wrap_sprites says
DrawAlwaysWraps(s, cfg, x_reg, y_reg, n) ==
    DrawKeepsFlag(SetV(s, VF, 0), [cfg EXCEPT !.quirks.wrap_sprites = TRUE], x_reg, y_reg, n)

\* a DXYN that clips whatever wrap_sprites says
DrawNeverWraps(s, cfg, x_reg, y_reg, n) ==
    DrawKeepsFlag(SetV(s, VF, 0), [cfg EXCEPT !.quirks.wrap_sprites = FALSE], x_reg, y_reg, n)

\* DXYN up to the draw wait
Draw(s, cfg, x_reg, y_reg, n) ==
    LET cleared == SetV(s, VF, 0)
        x == cleared.v[x_reg] % cfg.display.width
        y == cleared.v[y_reg] % cfg.display.height
        sprite == ReadBuf(s.memory, s.i, n)
        d == [width |-> cfg.display.width, height |-> cfg.display.height,
              wrap |-> cfg.quirks.wrap_sprites]
    IN IF ~sprite.ok THEN Fatal(s, sprite.err)
       ELSE LET done == BlitLayers([fb |-> s.frame_buffer, vf |-> 0], d, sprite.val, x, y, 0)
                after == [cleared EXCEPT !.frame_buffer = done.fb, !.v[VF] = done.vf]
            IN [Step(after) EXCEPT
                  !.next = IF ~cfg.quirks.skip_draw_wait THEN "drawwait" ELSE "guard"]

\* an FX0A that retries when there is no input backend
WaitKeyRetries(s, cfg, keys_down) ==
    IF cfg.has_input /\ Len(keys_down) > 0
    THEN [Step(s) EXCEPT !.next = "keywait", !.key = <<keys_down[1]>>]
    ELSE Step([s EXCEPT !.pc = s.pc - 2])

\* FX0A before the release wait
WaitKey(s, cfg, keys_down) ==
    IF cfg.has_input
    THEN IF Len(keys_down) > 0
         THEN [Step(s) EXCEPT !.next = "keywait", !.key = <<keys_down[1]>>]
         ELSE Step([s EXCEPT !.pc = s.pc - 2])
    ELSE Fatal(s, <<"MissingInput">>)

\* an FX33 that puts the units first
RECURSIVE StoreBCDReversed(_, _, _)
StoreBCDReversed(s, value, index) ==
    IF index < 0 THEN Step(s)
    ELSE LET w == WriteByte(s.memory, s.i + (2 - index), value % 10)
         IN IF ~w.ok THEN Fatal(s, w.err)
            ELSE StoreBCDReversed([s EXCEPT !.memory = w.buffer], value \div 10, index - 1)

\* FX33: the digits are written last to first
RECURSIVE StoreBCD(_, _, _)
StoreBCD(s, value, index) ==
    IF index < 0 THEN Step(s)
    ELSE LET w == WriteByte(s.memory, s.i + index, value % 10)
         IN IF ~w.ok THEN Fatal(s, w.err)
            ELSE StoreBCD([s EXCEPT !.memory = w.buffer], value \div 10, index - 1)

\* an FX55 / FX65 that never moves I
KeepIndex(s, q, x) == s

\* FX55 / FX65: I moves past the block unless preserve_index
AdvanceIndex(s, q, x) == IF ~q.preserve_index THEN [s EXCEPT !.i = s.i + x + 1] ELSE s

\* an FX55 that stops before V[x]
RECURSIVE VDumpBelow(_, _, _, _)
VDumpBelow(s, q, x, index) ==
    IF index >= x THEN Step(AdvanceIndex(s, q, x))
    ELSE LET w == WriteByte(s.memory, s.i + index, s.v[index])
         IN IF ~w.ok THEN Fatal(s, w.err)
            ELSE VDumpBelow([s EXCEPT !.memory = w.buffer], q, x, index + 1)

\* FX55
RECURSIVE VDump(_, _, _, _)
VDump(s, q, x, index) ==
    IF index > x THEN Step(AdvanceIndex(s, q, x))
    ELSE LET w == WriteByte(s.memory, s.i + index, s.v[index])
         IN IF ~w.ok THEN Fatal(s, w.err)
            ELSE VDump([s EXCEPT !.memory = w.buffer], q, x, index + 1)

\* FX65
RECURSIVE VLoad(_, _, _, _)
VLoad(s, q, x, index) ==
    IF index > x THEN Step(AdvanceIndex(s, q, x))
    ELSE LET r == ReadByte(s.memory, s.i + index)
         IN IF ~r.ok THEN Fatal(s, r.err)
            ELSE VLoad(SetV(s, index, r.val), q, x, index + 1)

\* Vec::contains
Contains(seq, e) == \E k \in 1 .. Len(seq) : seq[k] = e

(***************************************************************************)
(* execute!(opcode, {...}) after the fetch: pc is incremented first, then  *)
(* the arm the opcode matches runs.  keys_down is this cycle's key         *)
(* snapshot, delay the value delay.get() returns, random the byte          *)
(* rand::rng().random::<u8>() returns.  An opcode the decoder accepts and  *)
(* no arm matches is taken as fatal (spec: "Unknown opcodes: fatal").      *)
(***************************************************************************)
Execute(opcode, s0, cfg, keys_down, delay, random) ==
    LET s == [s0 EXCEPT !.pc = s0.pc + 2]
        q == cfg.quirks
        x == FieldX(opcode)
        y == FieldY(opcode)
        n == FieldN(opcode)
        nn == FieldNN(opcode)
        nnn == FieldNNN(opcode)
        arm == Arm(opcode)
    IN CASE arm = "00E0" ->
              [Step([s EXCEPT !.frame_buffer = [c \in DOMAIN s.frame_buffer |-> FALSE]])
                 EXCEPT !.send = <<"Draw">>]
         [] arm = "00EE" -> Return(s)
         [] arm = "1NNN" -> Step([s EXCEPT !.pc = nnn])
         [] arm = "2NNN" -> Call(s, nnn)
         [] arm = "3XNN" -> SkipIf(s, s.v[x] = nn)
         [] arm = "4XNN" -> SkipIf(s, s.v[x] # nn)
         [] arm = "5XY0" -> SkipIf(s, s.v[x] = s.v[y])
         [] arm = "6XNN" -> Step(SetV(s, x, nn))
         [] arm = "7XNN" -> Step(SetV(s, x, WrappingAdd(s.v[y], nn)))
         [] arm = "8XY0" -> Step(SetV(s, x, s.v[y]))
         [] arm = "8XY1" -> Logic(s, q, x, BitOr(s.v[x], s.v[y]))
         [] arm = "8XY2" -> Logic(s, q, x, BitAnd(s.v[x], s.v[y]))
         [] arm = "8XY3" -> Logic(s, q, x, BitXor(s.v[x], s.v[y]))
         [] arm = "8XY4" ->
              LET r == OverflowingAdd(s.v[x], s.v[y]) IN Arith(s, x, r, r.overflowed)
         [] arm = "8XY5" ->
              LET r == OverflowingSub(s.v[x], s.v[y]) IN Arith(s, x, r, ~r.overflowed)
         [] arm = "8XY6" ->
              LET reg == ShiftReg(q, x, y)
                  bit == s.v[reg] % 2
              IN Shift(s, x, Shr1(s.v[reg]), bit)
         [] arm = "8XY7" ->
              LET r == OverflowingSub(s.v[y], s.v[x]) IN Arith(s, x, r, ~r.overflowed)
         [] arm = "8XYE" ->
              LET reg == ShiftReg(q, x, y)
                  bit == BitOf(s.v[reg], 7)
              IN Shift(s, x, Shl1(s.v[reg]), bit)
         [] arm = "9XY0" -> SkipIf(s, s.v[x] # s.v[y])
         [] arm = "ANNN" -> Step([s EXCEPT !.i = nnn])
         [] arm = "BNNN" -> Step([s EXCEPT !.pc = nnn + JumpOffset(s, q, nnn)])
         [] arm = "CXNN" -> Step(SetV(s, x, BitAnd(random, nn)))
         [] arm = "DXYN" -> Draw(s, cfg, x, y, n)
         [] arm = "EX9E" -> SkipIf(s, Contains(keys_down, s.v[x] % 16))
         [] arm = "EXA1" -> SkipIf(s, ~Contains(keys_down, s.v[x] % 16))
         [] arm = "FX07" -> Step(SetV(s, x, delay))
         [] arm = "FX0A" -> WaitKey(s, cfg, keys_down)
         [] arm = "FX15" -> [Step(s) EXCEPT !.set = <<"delay", s.v[x]>>]
         [] arm = "FX18" -> [Step(s) EXCEPT !.set = <<"sound", s.v[x]>>]
         [] arm = "FX1E" -> Step([s EXCEPT !.i = (s.i + s.v[x]) % (UsizeMax + 1)])
         [] arm = "FX29" -> Step([s EXCEPT !.i = cfg.memory.font_start + (s.v[x] % 16) * 5])
         [] arm = "FX33" -> StoreBCD(s, s.v[x], 2)
         [] arm = "FX55" -> VDump(s, q, x, 0)
         [] arm = "FX65" -> VLoad(s, q, x, 0)
         [] OTHER -> Fatal(s, <<"InvalidOpcode", opcode>>)

\* a fetch whose addresses wrap round at the end of the memory
FetchWrapping(s) ==
    LET length == Cardinality(DOMAIN s.memory)
    IN [ok |-> TRUE, val |-> <<s.memory[s.pc % length], s.memory[(s.pc + 1) % length]>>]

\* let parts = self.memory.read_buf(self.pc, 2)
Fetch(s) == ReadBuf(s.memory, s.pc, 2)

\* One cycle from the fetched bytes on (src/src/system.rs 149-438)
Cycle(parts, s, cfg, keys_down, delay, random) ==
    LET opcode == parts.val[1] * 256 + parts.val[2]
    IN IF ~parts.ok THEN Fatal(s, parts.err)
       ELSE IF ~Decode(opcode).ok THEN Fatal(s, <<"InvalidOpcode", opcode>>)
       ELSE Execute(opcode, s, cfg, keys_down, delay, random)

(***************************************************************************)
(* Configurations and ROMs the model runs.                                 *)
(***************************************************************************)
\* config.rs 171-188
DefaultFont ==
    <<240, 144, 144, 144, 240,    32, 96, 32, 32, 112,
      240, 16, 240, 128, 240,     240, 16, 240, 16, 240,
      144, 144, 240, 16, 16,      240, 128, 240, 16, 240,
      240, 128, 240, 144, 240,    240, 16, 32, 64, 64,
      240, 144, 240, 144, 240,    240, 144, 240, 16, 240,
      240, 144, 240, 144, 144,    224, 144, 224, 144, 224,
      240, 128, 128, 128, 240,    224, 144, 144, 144, 224,
      240, 128, 240, 128, 240,    240, 128, 240, 128, 128>>

\* QuirksConfig with every quirk off (the default of each flag)
NoQuirks ==
    [skip_reset_vf |-> FALSE, preserve_index |-> FALSE, skip_draw_wait |-> FALSE,
     wrap_sprites |-> FALSE, skip_shift_set |-> FALSE, jump_with_vx |-> FALSE]

\* Config: From<Args>, with the backends every create_*_device made
BaseConfig ==
    [quirks |-> NoQuirks,
     memory |-> [length |-> MemLength, program_start |-> ProgramStart,
                 font_start |-> FontStart, default_font |-> DefaultFont],
     display |-> [width |-> DisplayWidth, height |-> DisplayHeight],
     has_display |-> TRUE, has_audio |-> TRUE, has_input |-> TRUE]

NoInputConfig == [BaseConfig EXCEPT !.has_input = FALSE]
SkipDrawWaitConfig == [NoInputConfig EXCEPT !.quirks.skip_draw_wait = TRUE]
\* BNNN takes its offset from the register its top nibble names
JumpVxConfig == [SkipDrawWaitConfig EXCEPT !.quirks.jump_with_vx = TRUE]
\* sprites wrap round the edges of a display two rows high
WrapConfig ==
    [SkipDrawWaitConfig EXCEPT !.quirks.wrap_sprites = TRUE, !.display.height = 2]
\* room for two instructions between program_start and the end of the memory
TightConfig == [NoInputConfig EXCEPT !.memory.program_start = MemLength - 4]
\* the font and the program somewhere else
ConfigAt(font_start, program_start) ==
    [NoInputConfig EXCEPT !.memory.font_start = font_start,
                          !.memory.program_start = program_start]

\* opcode words, by the patterns of the dispatch table
OpCLS == 224
OpRET == 238
OpJP(nnn) == 1 * 4096 + nnn
OpCALL(nnn) == 2 * 4096 + nnn
OpLD(x, nn) == 6 * 4096 + x * 256 + nn
OpLDI(nnn) == 10 * 4096 + nnn
OpDRW(x, y, n) == 13 * 4096 + x * 256 + y * 16 + n
OpLDVxDT(x) == 15 * 4096 + x * 256 + 7
OpLDK(x) == 15 * 4096 + x * 256 + 10
OpLDDT(x) == 15 * 4096 + x * 256 + 21
OpLDST(x) == 15 * 4096 + x * 256 + 24

\* a ROM image: each word big-endian, as the fetch reads it back
RECURSIVE Assemble(_)
Assemble(words) ==
    IF Len(words) = 0 THEN <<>>
    ELSE <<Head(words) \div 256, Head(words) % 256>> \o Assemble(Tail(words))

\* I <- glyph 0; then draw its first row at the right edge, (V0, V1), for ever
RomDraw ==
    Assemble(<<OpLD(0, DisplayWidth - 2), OpLDI(FontStart), OpDRW(0, 1, 1),
               OpJP(ProgramStart + 4)>>)

\* wait for a key into V2, again and again
RomKey == Assemble(<<OpLDK(2), OpJP(ProgramStart)>>)

\* two calls of a subroutine that itself calls a subroutine
RomCall ==
    Assemble(<<OpCALL(ProgramStart + 6), OpCALL(ProgramStart + 10), OpJP(ProgramStart + 4),
               OpCALL(ProgramStart + 10), OpRET, OpRET>>)

\* a call that returns, then a RET with nothing to return to
RomRet == Assemble(<<OpCALL(ProgramStart + 4), OpRET, OpRET>>)

\* delay <- 2, read it, delay <- 0, then read it for ever
RomDelay ==
    Assemble(<<OpLD(0, 2), OpLDDT(0), OpLDVxDT(1), OpLD(0, 0), OpLDDT(0),
               OpLDVxDT(1), OpJP(ProgramStart + 10)>>)

\* sound <- 2, then idle
RomSound == Assemble(<<OpLD(0, 2), OpLDST(0), OpJP(ProgramStart + 4)>>)

\* the opcode of four nibbles
Op(t, x, y, n) == t * 4096 + x * 256 + y * 16 + n

\* every kind of skip taken and not taken, a call and its return, a BNNN
\* that lands inside the program and one that lands past 0x100
RomFlow ==
    Assemble(<<OpLD(0, 2),
               Op(3, 0, 0, 2), OpJP(ProgramStart),             \* SE V0, 2: taken
               Op(4, 0, 0, 2),                                 \* SNE V0, 2: not taken
               Op(5, 0, 1, 0),                                 \* SE V0, V1: not taken
               Op(9, 0, 1, 0), OpJP(ProgramStart),             \* SNE V0, V1: taken
               OpCALL(ProgramStart + 18),
               11 * 4096 + ProgramStart + 20,                  \* JP V0, +20: lands on +22
               OpRET,
               OpJP(ProgramStart),
               Op(3, 0, 0, 3),                                 \* SE V0, 3: not taken
               Op(4, 0, 0, 3), OpJP(ProgramStart),             \* SNE V0, 3: taken
               Op(5, 0, 0, 0), OpJP(ProgramStart),             \* SE V0, V0: taken
               Op(9, 0, 0, 0),                                 \* SNE V0, V0: not taken
               OpLD(1, 4),
               Op(11, 1, 0, 0)>>)                              \* JP V0 (or V1), 0x100

\* the instructions that only go on to the next one, then the zeroes after
\* the program
RomAlu ==
    Assemble(<<OpLD(0, 200), OpLD(1, 100),
               Op(7, 0, 0, 100),                               \* ADD V0, 100
               Op(8, 2, 0, 0), Op(8, 2, 1, 1), Op(8, 2, 1, 2), Op(8, 2, 1, 3),
               Op(8, 2, 0, 4), Op(8, 2, 1, 5), Op(8, 2, 1, 6), Op(8, 2, 0, 7),
               Op(8, 2, 1, 14),
               OpLDI(ProgramStart + 44),
               OpLDDT(0), OpLDST(1), OpLDVxDT(3),
               Op(15, 1, 1, 14),                               \* ADD I, V1
               Op(15, 1, 2, 9),                                \* LD F, V1
               Op(15, 0, 3, 3),                                \* LD B, V0
               Op(15, 1, 5, 5),                                \* LD [I], V1
               Op(15, 1, 6, 5),                                \* LD V1, [I]
               OpCLS,
               Op(12, 4, 0, 15)>>)                             \* RND V4, 0x0F

\* the two key skips on key 3, for ever
RomSkipKey ==
    Assemble(<<OpLD(0, 3), Op(14, 0, 9, 14), OpLD(1, 1), Op(14, 0, 10, 1), OpLD(1, 2),
               OpJP(ProgramStart + 2)>>)

\* glyph 0 drawn with VF set before: no row of it, three rows at the top
\* left, two rows across them lower down, the top row at the right edge, and
\* the same again for ever
RomSprites ==
    Assemble(<<OpLDI(FontStart), OpLD(0, 0), OpLD(1, 0),
               OpLD(15, 1), OpDRW(0, 1, 0),
               OpLD(15, 1), OpDRW(0, 1, 3),
               OpLD(0, 2), OpLD(1, DisplayHeight - 1), OpLD(15, 1), OpDRW(0, 1, 2),
               OpLD(0, DisplayWidth - 2), OpLD(15, 1), OpDRW(0, 1, 1),
               OpJP(ProgramStart + 2)>>)

\* the rows 0xA5 and 0x5A drawn in the last column, then three columns from
\* the right edge on the last row
RomEdge ==
    Assemble(<<OpLDI(ProgramStart + 16),
               OpLD(0, DisplayWidth - 1), OpLD(1, 0), OpDRW(0, 1, 2),
               OpLD(0, DisplayWidth - 3), OpLD(1, DisplayHeight - 1), OpDRW(0, 1, 2),
               OpJP(ProgramStart + 14),
               165 * 256 + 90>>)

\* the sound timer set, a glyph row drawn, a register loaded, the display
\* cleared, and the zeroes after the program
RomFrame ==
    Assemble(<<OpLD(0, 1), OpLDST(0), OpLDI(FontStart),
               OpDRW(1, 1, 1), OpLD(2, 5), OpCLS>>)

\* the top row of glyph 0 drawn at (VF, V1) with VF = 3, then at (V1, VF)
\* with VF = 2
RomFlagOrigin ==
    Assemble(<<OpLDI(FontStart), OpLD(1, 1), OpLD(15, 3), OpDRW(15, 1, 1),
               OpLD(15, 2), OpDRW(1, 15, 1)>>)

\* the top row of glyph 0 drawn by one DRW after another
RomDraws ==
    Assemble(<<OpLDI(FontStart), OpDRW(0, 1, 1), OpDRW(0, 1, 1), OpDRW(0, 1, 1),
               OpDRW(0, 1, 1)>>)

\* a jump to the first address past the memory
RomJumpOut == Assemble(<<OpJP(MemLength)>>)

\* a call of the last byte of the memory
RomCallOut == Assemble(<<OpCALL(MemLength - 1)>>)

\* two instructions and nothing after them
RomTail == Assemble(<<OpLD(0, 1), OpLD(1, 2)>>)

Scenario(c, r) == [config |-> c, rom |-> r]

SyncScenarios ==
    {Scenario(NoInputConfig, RomDraw), Scenario(SkipDrawWaitConfig, RomDraw),
     Scenario(BaseConfig, RomKey), Scenario(NoInputConfig, RomKey),
     Scenario(NoInputConfig, RomCall), Scenario(NoInputConfig, RomRet)}

TimerScenarios == {Scenario(NoInputConfig, RomDelay), Scenario(NoInputConfig, RomSound)}

\* the keys the input backend may report (Key, devices.rs 62-67)
Keys == {3, 10}

\* the bytes rand::rng().random::<u8>() may return
RandomBytes == {0, 1, 15, 240, 255}

\* the orders in which get_keys_down may list the keys that are down
KeyOrders(down) ==
    {o \in [1 .. Cardinality(down) -> down] :
        \A a, b \in 1 .. Cardinality(down) : o[a] = o[b] => a = b}

(***************************************************************************)
(* The state.                                                              *)
(***************************************************************************)
VARIABLES
    config,        \* ChipEight.config
    rom,           \* the argument of play
    stack, pc, v, i, memory, frame_buffer,    \* ChipEight's fields
    epc,           \* where the executor is in play
    wait_key,      \* FX0A: the key whose release is awaited
    failure,       \* the panic that ended play
    running,       \* play's running flag, cleared by the Ctrl-C handler
    should_draw,   \* the flag the display ticker raises
    chan,          \* device_channel: the events sent and not yet received
    ticker_pc,     \* where the display ticker is
    tvalue, trunning, tpc, tcur,    \* per timer: value, running, worker position, current
    keys_pressed,  \* the keys the input backend holds down
    audio,         \* what the audio backend was last told
    displayed,     \* the frame the display backend was last given
    raised,        \* history: the ticks that raised should_draw
    released,      \* history: the DRWs that left the wait by clearing should_draw
    tick_in_wait,  \* history: a tick happened since the last DRW applied its sprite
    set_epoch,     \* history, per timer: the number of sets so far
    tick_epoch,    \* history, per timer: set_epoch when the tick under way loaded
    last_set,      \* history, per timer: the value of the last set
    ticks_since,   \* history, per timer: the ticks completed since the last set
    call_sites,    \* history: the addresses of the CALLs not yet returned from
    probe,         \* the operation and the arguments of a call made on its own
    outcome        \* what that call returned

cpuVars == <<stack, pc, v, i, memory, frame_buffer>>
execVars == <<epc, wait_key, failure>>
timerVars == <<tvalue, trunning, tpc, tcur>>
timerHistory == <<set_epoch, tick_epoch, last_set, ticks_since>>
drawHistory == <<raised, released, tick_in_wait>>
backendVars == <<audio, displayed>>
probeVars == <<overflow_checks, probe, outcome>>
vars ==
    <<config, rom, stack, pc, v, i, memory, frame_buffer, epc, wait_key, failure,
      running, should_draw, chan, ticker_pc, tvalue, trunning, tpc, tcur,
      keys_pressed, audio, displayed, raised, released, tick_in_wait,
      set_epoch, tick_epoch, last_set, ticks_since, call_sites, overflow_checks,
      probe, outcome>>

\* the ticks of the display ticker the model follows
MaxTicks == 3

TimerIds == {"delay", "sound"}

\* Timer::new(Some(device_tx.clone())) for sound, Timer::new(None) for delay
HasChannel(t) == t = "sound"

Cpu == [pc |-> pc, v |-> v, i |-> i, stack |-> stack, memory |-> memory,
        frame_buffer |-> frame_buffer]

(***************************************************************************)
(* ChipEight::from(config) (src/src/system.rs 60-80): the state after      *)
(* construction, with both timer workers started, for a configuration and  *)
(* the ROM play will be given.                                             *)
(***************************************************************************)
InitWith(sc) ==
    /\ config = sc.config
    /\ rom = sc.rom
    /\ stack = <<>>
    /\ pc = sc.config.memory.program_start
    /\ v = [r \in Regs |-> 0]
    /\ i = 0
    /\ memory = MemoryNew(sc.config.memory.length)
    /\ frame_buffer = [c \in 0 .. (sc.config.display.width * sc.config.display.height - 1) |-> FALSE]
    /\ epc = "init"
    /\ wait_key = <<>>
    /\ failure = <<>>
    /\ running = TRUE
    /\ should_draw = FALSE
    /\ chan = <<>>
    /\ ticker_pc = "idle"
    /\ tvalue = [t \in TimerIds |-> 0]
    /\ trunning = [t \in TimerIds |-> TRUE]
    /\ tpc = [t \in TimerIds |-> "guard"]
    /\ tcur = [t \in TimerIds |-> 0]
    /\ keys_pressed = {}
    /\ audio = "silent"
    /\ displayed = [c \in 0 .. (sc.config.display.width * sc.config.display.height - 1) |-> FALSE]
    /\ raised = 0
    /\ released = 0
    /\ tick_in_wait = FALSE
    /\ set_epoch = [t \in TimerIds |-> 0]
    /\ tick_epoch = [t \in TimerIds |-> 0]
    /\ last_set = [t \in TimerIds |-> 0]
    /\ ticks_since = [t \in TimerIds |-> 0]
    /\ call_sites = <<>>

\* either build of the program, and no call made on its own
NoProbe == overflow_checks \in BOOLEAN /\ probe = <<>> /\ outcome = <<>>

(***************************************************************************)
(* The executor: ChipEight::play (src/src/system.rs 83-443).               *)
(***************************************************************************)
\* a panic ends the process, and every thread with it
Alive == epc # "panic"

\* a load that writes the font over the ROM
LoadFontLast(buffer, cfg, r) ==
    LET prog == WriteBuf(buffer, cfg.memory.program_start, r)
        font == WriteBuf(prog.buffer, cfg.memory.font_start, cfg.memory.default_font)
    IN IF ~prog.ok THEN prog ELSE font

\* the default font stored at font_start, then the ROM at program_start
Load(buffer, cfg, r) ==
    LET font == WriteBuf(buffer, cfg.memory.font_start, cfg.memory.default_font)
        prog == WriteBuf(font.buffer, cfg.memory.program_start, r)
    IN IF ~font.ok THEN font ELSE prog

\* play up to its loop: the font, the ROM, the display ticker spawned
PlayLoad ==
    /\ epc = "init"
    /\ LET loaded == Load(memory, config, rom)
       IN /\ memory' = loaded.buffer
          /\ IF ~loaded.ok
             THEN epc' = "panic" /\ failure' = loaded.err /\ UNCHANGED ticker_pc
             ELSE epc' = "guard" /\ ticker_pc' = "guard" /\ UNCHANGED failure
    /\ UNCHANGED <<config, rom, stack, pc, v, i, frame_buffer, wait_key, running,
                   should_draw, chan, timerVars, keys_pressed, backendVars,
                   drawHistory, timerHistory, call_sites, probeVars>>

\* another program loaded into the machine before play is called
LoadCall ==
    /\ epc = "init"
    /\ outcome = <<>>
    /\ \E r \in {RomCall} :
         LET loaded == Load(memory, config, r)
         IN /\ memory' = loaded.buffer
            /\ outcome' = [op |-> "load", data |-> r, ok |-> loaded.ok]
    /\ UNCHANGED <<config, rom, stack, pc, v, i, frame_buffer, execVars, running,
                   should_draw, chan, ticker_pc, timerVars, keys_pressed, backendVars,
                   drawHistory, timerHistory, call_sites, overflow_checks, probe>>

\* while running.load(SeqCst)
LoopGuard ==
    /\ epc = "guard"
    /\ epc' = IF running THEN "drain" ELSE "done"
    /\ UNCHANGED <<config, rom, cpuVars, wait_key, failure, running, should_draw, chan,
                   ticker_pc, timerVars, keys_pressed, backendVars, drawHistory,
                   timerHistory, call_sites, probeVars>>

\* a drain that takes the event sent last
DrainNewest ==
    /\ epc = "drain"
    /\ epc' = "exec"
    /\ IF Len(chan) > 0
       THEN /\ chan' = SubSeq(chan, 1, Len(chan) - 1)
            /\ displayed' = IF chan[Len(chan)] = "Draw" /\ config.has_display
                            THEN frame_buffer ELSE displayed
            /\ audio' = IF chan[Len(chan)] = "PlayTone" /\ config.has_audio THEN "tone"
                        ELSE IF chan[Len(chan)] = "StopTone" /\ config.has_audio THEN "silent"
                        ELSE audio
       ELSE UNCHANGED <<chan, displayed, audio>>
    /\ UNCHANGED <<config, rom, cpuVars, wait_key, failure, running, should_draw,
                   ticker_pc, timerVars, keys_pressed, drawHistory, timerHistory,
                   call_sites, probeVars>>

\* if let Ok(event) = device_rx.try_recv() { match event {...} }
Drain ==
    /\ epc = "drain"
    /\ epc' = "exec"
    /\ IF Len(chan) > 0
       THEN /\ chan' = Tail(chan)
            /\ displayed' = IF Head(chan) = "Draw" /\ config.has_display
                            THEN frame_buffer ELSE displayed
            /\ audio' = IF Head(chan) = "PlayTone" /\ config.has_audio THEN "tone"
                        ELSE IF Head(chan) = "StopTone" /\ config.has_audio THEN "silent"
                        ELSE audio
       ELSE UNCHANGED <<chan, displayed, audio>>
    /\ UNCHANGED <<config, rom, cpuVars, wait_key, failure, running, should_draw,
                   ticker_pc, timerVars, keys_pressed, drawHistory, timerHistory,
                   call_sites, probeVars>>

\* the opcode at pc, when there is one
OpcodeAt(mem, addr) ==
    IF ReadBuf(mem, addr, 2).ok THEN mem[addr] * 256 + mem[addr + 1] ELSE 0

\* the key snapshot, the fetch and the instruction, up to a wait
ExecuteStep ==
    /\ epc = "exec"
    /\ \E order \in KeyOrders(keys_pressed), random \in RandomBytes :
       \E parts \in {Fetch(Cpu)} :
       \E r \in {Cycle(parts, Cpu, config, IF config.has_input THEN order ELSE <<>>,
                       tvalue["delay"], random)} :
         LET arm == Arm(OpcodeAt(memory, pc))
         IN /\ pc' = r.s.pc
            /\ v' = r.s.v
            /\ i' = r.s.i
            /\ stack' = r.s.stack
            /\ memory' = r.s.memory
            /\ frame_buffer' = r.s.frame_buffer
            /\ epc' = IF r.status = "panic" THEN "panic" ELSE r.next
            /\ failure' = r.failure
            /\ wait_key' = r.key
            /\ chan' = IF r.send # <<>> THEN Append(chan, r.send[1]) ELSE chan
            /\ IF r.set # <<>>
               THEN /\ tvalue' = [tvalue EXCEPT ![r.set[1]] = r.set[2]]
                    /\ set_epoch' = [set_epoch EXCEPT ![r.set[1]] = @ + 1]
                    /\ last_set' = [last_set EXCEPT ![r.set[1]] = r.set[2]]
                    /\ ticks_since' = [ticks_since EXCEPT ![r.set[1]] = 0]
               ELSE UNCHANGED <<tvalue, set_epoch, last_set, ticks_since>>
            /\ tick_in_wait' = IF r.next = "drawwait" THEN FALSE ELSE tick_in_wait
            /\ call_sites' =
                 IF r.status = "ok" /\ arm = "2NNN" THEN Append(call_sites, pc)
                 ELSE IF r.status = "ok" /\ arm = "00EE"
                 THEN SubSeq(call_sites, 1, Len(call_sites) - 1)
                 ELSE call_sites
    /\ UNCHANGED <<config, rom, running, should_draw, ticker_pc, trunning, tpc, tcur,
                   keys_pressed, backendVars, raised, released, tick_epoch,
                   probeVars>>

\* a DRW that takes the window whether or not a tick opened it
DrawWindowTakenAlways(flag) == TRUE

\* should_draw.compare_exchange(true, false, ..) succeeds
DrawWindowTaken(flag) == flag = TRUE

\* a draw wait that never looks at the running flag
WaitNeverAborted(run) == FALSE

\* if running.load(SeqCst) { .. } else { break }
WaitAborted(run) == ~run

\* the draw wait of DXYN (src/src/system.rs 333-348), one turn of its loop
DrawWait ==
    /\ epc = "drawwait"
    /\ IF ~WaitAborted(running)
       THEN IF DrawWindowTaken(should_draw)
            THEN should_draw' = FALSE /\ released' = released + 1 /\ epc' = "guard"
            ELSE UNCHANGED <<should_draw, released, epc>>
       ELSE epc' = "guard" /\ UNCHANGED <<should_draw, released>>
    /\ UNCHANGED <<config, rom, cpuVars, wait_key, failure, running, chan, ticker_pc,
                   timerVars, keys_pressed, backendVars, raised, tick_in_wait,
                   timerHistory, call_sites, probeVars>>

\* an FX0A that completes on the press alone
KeyWaitOverOnPress(run, down, key) == TRUE

\* the release wait of FX0A ends: shutdown, or the key is no longer down
KeyWaitOver(run, down, key) == ~run \/ key \notin down

\* the release wait of FX0A (src/src/system.rs 376-382), one turn of its loop
KeyWait ==
    /\ epc = "keywait"
    /\ IF KeyWaitOver(running, keys_pressed, wait_key[1])
       THEN /\ v' = [v EXCEPT ![FieldX(OpcodeAt(memory, pc - 2))] = wait_key[1]]
            /\ epc' = "guard"
            /\ wait_key' = <<>>
       ELSE UNCHANGED <<v, epc, wait_key>>
    /\ UNCHANGED <<config, rom, stack, pc, i, memory, frame_buffer, failure, running,
                   should_draw, chan, ticker_pc, timerVars, keys_pressed, backendVars,
                   drawHistory, timerHistory, call_sites, probeVars>>

(***************************************************************************)
(* The display ticker (src/src/system.rs 108-124).                         *)
(***************************************************************************)
\* should_draw.compare_exchange(false, true, ..) succeeds
RaisesWindow(flag) == flag = FALSE

\* the loop test and the send of the Draw event
TickerSend ==
    /\ Alive
    /\ ticker_pc = "guard"
    /\ IF running
       THEN /\ Len(chan) < MaxChan
            /\ raised < MaxTicks
            /\ chan' = Append(chan, "Draw")
            /\ ticker_pc' = "cas"
       ELSE ticker_pc' = "exited" /\ UNCHANGED chan
    /\ UNCHANGED <<config, rom, cpuVars, execVars, running, should_draw, timerVars,
                   keys_pressed, backendVars, drawHistory, timerHistory, call_sites, probeVars>>

\* the compare_exchange, then the sleep
TickerRaise ==
    /\ Alive
    /\ ticker_pc = "cas"
    /\ should_draw' = TRUE
    /\ raised' = IF RaisesWindow(should_draw) THEN raised + 1 ELSE raised
    /\ tick_in_wait' = TRUE
    /\ ticker_pc' = "guard"
    /\ UNCHANGED <<config, rom, cpuVars, execVars, running, chan, timerVars,
                   keys_pressed, backendVars, released, timerHistory, call_sites, probeVars>>

(***************************************************************************)
(* A timer's worker (src/src/timer.rs 29-48).                              *)
(***************************************************************************)
\* a tick that decrements whatever it loaded, wrapping below zero
TickResultWrapping(current) ==
    [store |-> TRUE, value |-> (current + ByteMod - 1) % ByteMod]

\* if current > 0 { store(current - 1) }: whether the tick stores, and what
TickResult(current) ==
    IF current > 0 THEN [store |-> TRUE, value |-> current - 1]
    ELSE [store |-> FALSE, value |-> current]

\* a worker that sends PlayTone on every tick
ToneEventAlwaysPlay(current) == "PlayTone"

\* a tone event chosen by the value after the decrement
ToneEventAfterStore(current) == IF current - 1 > 0 THEN "PlayTone" ELSE "StopTone"

\* the event of a tick that loaded current
ToneEvent(current) == IF current > 0 THEN "PlayTone" ELSE "StopTone"

Min(a, b) == IF a < b THEN a ELSE b

\* a worker that never looks at its stop flag
WorkerGuardForever(t) ==
    /\ Alive
    /\ tpc[t] = "guard"
    /\ tpc' = [tpc EXCEPT ![t] = "sleep"]
    /\ UNCHANGED <<config, rom, cpuVars, execVars, running, should_draw, chan, ticker_pc,
                   tvalue, trunning, tcur, keys_pressed, backendVars, drawHistory,
                   timerHistory, call_sites, probeVars>>

\* while running_clone.load(Relaxed)
WorkerGuard(t) ==
    /\ Alive
    /\ tpc[t] = "guard"
    /\ tpc' = [tpc EXCEPT ![t] = IF trunning[t] THEN "sleep" ELSE "exited"]
    /\ UNCHANGED <<config, rom, cpuVars, execVars, running, should_draw, chan, ticker_pc,
                   tvalue, trunning, tcur, keys_pressed, backendVars, drawHistory,
                   timerHistory, call_sites, probeVars>>

\* thread::sleep(tick_duration); let current = value_clone.load(Acquire)
WorkerLoad(t) ==
    /\ Alive
    /\ tpc[t] = "sleep"
    /\ tcur' = [tcur EXCEPT ![t] = tvalue[t]]
    /\ tpc' = [tpc EXCEPT ![t] = "loaded"]
    /\ tick_epoch' = [tick_epoch EXCEPT ![t] = set_epoch[t]]
    /\ UNCHANGED <<config, rom, cpuVars, execVars, running, should_draw, chan, ticker_pc,
                   tvalue, trunning, keys_pressed, backendVars, drawHistory,
                   set_epoch, last_set, ticks_since, call_sites, probeVars>>

\* the store of the decrement, when the tick makes one
WorkerStore(t) ==
    /\ Alive
    /\ tpc[t] = "loaded"
    /\ tvalue' = IF TickResult(tcur[t]).store
                 THEN [tvalue EXCEPT ![t] = TickResult(tcur[t]).value] ELSE tvalue
    /\ tpc' = [tpc EXCEPT ![t] = IF HasChannel(t) THEN "send" ELSE "guard"]
    /\ ticks_since' = IF tick_epoch[t] = set_epoch[t]
                      THEN [ticks_since EXCEPT ![t] = Min(@ + 1, last_set[t])]
                      ELSE ticks_since
    /\ UNCHANGED <<config, rom, cpuVars, execVars, running, should_draw, chan, ticker_pc,
                   trunning, tcur, keys_pressed, backendVars, drawHistory, set_epoch,
                   tick_epoch,
                   last_set, call_sites, probeVars>>

\* sender.send(PlayTone) or sender.send(StopTone)
WorkerSend(t) ==
    /\ Alive
    /\ tpc[t] = "send"
    /\ IF epc = "done"
       THEN chan' = chan    \* play has returned: the event is never received
       ELSE Len(chan) < MaxChan /\ chan' = Append(chan, ToneEvent(tcur[t]))
    /\ tpc' = [tpc EXCEPT ![t] = "guard"]
    /\ UNCHANGED <<config, rom, cpuVars, execVars, running, should_draw, ticker_pc,
                   tvalue, trunning, tcur, keys_pressed, backendVars, drawHistory,
                   timerHistory, call_sites, probeVars>>

(***************************************************************************)
(* The ChipEight dropped after play has returned: its fields are dropped   *)
(* in the order of their declaration, delay before sound, and each Timer's *)
(* drop clears the stop flag of its worker and joins it                    *)
(* (src/src/timer.rs 66-74).                                               *)
(***************************************************************************)
\* self.running.store(false, Relaxed), once the timers before this one are
\* joined
DropTimer(t) ==
    /\ epc = "done"
    /\ trunning[t]
    /\ t = "sound" => tpc["delay"] = "exited"
    /\ trunning' = [trunning EXCEPT ![t] = FALSE]
    /\ UNCHANGED <<config, rom, cpuVars, execVars, running, should_draw, chan, ticker_pc,
                   tvalue, tpc, tcur, keys_pressed, backendVars, drawHistory,
                   timerHistory, call_sites, probeVars>>

\* handle.join() has returned for the last timer
Dropped ==
    /\ epc = "done"
    /\ \A t \in TimerIds : ~trunning[t] /\ tpc[t] = "exited"
    /\ epc' = "dropped"
    /\ UNCHANGED <<config, rom, cpuVars, wait_key, failure, running, should_draw, chan,
                   ticker_pc, timerVars, keys_pressed, backendVars, drawHistory,
                   timerHistory, call_sites, probeVars>>

(***************************************************************************)
(* The environment: Ctrl-C and the keyboard.                               *)
(***************************************************************************)
\* the handler of ctrlc::set_handler (src/src/system.rs 87-90)
Shutdown ==
    /\ epc \notin {"init", "panic", "done"}
    /\ running
    /\ running' = FALSE
    /\ UNCHANGED <<config, rom, cpuVars, execVars, should_draw, chan, ticker_pc,
                   timerVars, keys_pressed, backendVars, drawHistory, timerHistory,
                   call_sites, probeVars>>

\* a key goes down or comes up in the input backend (Input, devices.rs 95-97)
KeyChange ==
    /\ config.has_input
    /\ epc \notin {"panic", "done"}
    /\ \E k \in Keys :
         keys_pressed' = IF k \in keys_pressed THEN keys_pressed \ {k}
                         ELSE keys_pressed \union {k}
    /\ UNCHANGED <<config, rom, cpuVars, execVars, running, should_draw, chan, ticker_pc,
                   timerVars, backendVars, drawHistory, timerHistory, call_sites, probeVars>>

(***************************************************************************)
(* Specifications.                                                         *)
(***************************************************************************)
Executor == PlayLoad \/ LoopGuard \/ Drain \/ ExecuteStep \/ DrawWait \/ KeyWait

\* the executor with the display ticker, Ctrl-C and the keyboard
InitSync == (\E sc \in SyncScenarios : InitWith(sc)) /\ NoProbe
NextSync ==
    \/ PlayLoad \/ LoopGuard \/ Drain \/ ExecuteStep \/ DrawWait \/ KeyWait
    \/ TickerSend \/ TickerRaise
    \/ Shutdown \/ KeyChange
SpecSync == InitSync /\ [][NextSync]_vars
\* the executor thread is scheduled whenever it can run
FairSpecSync == SpecSync /\ WF_vars(Executor)

\* the executor with the two timer workers
InitTimer == (\E sc \in TimerScenarios : InitWith(sc)) /\ NoProbe
NextTimer ==
    \/ PlayLoad \/ LoopGuard \/ Drain \/ ExecuteStep
    \/ \E t \in TimerIds : WorkerGuard(t) \/ WorkerLoad(t) \/ WorkerStore(t) \/ WorkerSend(t)
SpecTimer == InitTimer /\ [][NextTimer]_vars
\* the executor and the workers are scheduled whenever they can run
FairSpecTimer ==
    /\ SpecTimer
    /\ WF_vars(PlayLoad \/ LoopGuard \/ Drain \/ ExecuteStep)
    /\ \A t \in TimerIds :
         WF_vars(WorkerGuard(t) \/ WorkerLoad(t) \/ WorkerStore(t) \/ WorkerSend(t))

\* V2 and V3 drawn at random, VF drawn from 0 and 1, then the instructions
\* given, then the zeroes after the program
\* 255 added to I = 0x201 by FX1E 255 times, which makes 2^16 + 2; then F065
RomIndex ==
    Assemble(<<OpLD(0, 255), OpLD(2, 1), OpLDI(513),
               Op(15, 0, 1, 14), Op(8, 1, 2, 4), Op(3, 1, 15, 15), OpJP(ProgramStart + 6),
               Op(15, 0, 6, 5)>>)

\* V2 = 0x0F, V3 = 0xF0, then 8230 and 8236
RomShift == Assemble(<<OpLD(2, 15), OpLD(3, 240), Op(8, 2, 3, 0), Op(8, 2, 3, 6)>>)

RomOps(ops) ==
    Assemble(<<Op(12, 2, 15, 15), Op(12, 3, 15, 15), Op(12, 15, 0, 1)>> \o ops)

\* single instructions on registers of every kind of value
AluScenarios ==
    LET Plain == SkipDrawWaitConfig
        On(ops, configs) == {Scenario(c, RomOps(ops)) : c \in configs}
        RegPairs == {<<2, 3>>, <<2, 2>>, <<15, 3>>, <<2, 15>>, <<15, 15>>}
        ShiftQuirks == {Plain, [Plain EXCEPT !.quirks.skip_shift_set = TRUE]}
    IN UNION {
         \* 8XY4, 8XY5, 8XY7, also on VF and on one register twice
         {Scenario(Plain, RomOps(<<Op(8, xy[1], xy[2], n)>>)) :
            xy \in RegPairs, n \in {4, 5, 7}},
         \* 7XNN with the second nibble naming V3, V2 and VF
         {Scenario(Plain, RomOps(<<Op(7, 2, y, 5)>>)) : y \in {3, 2, 15}},
         \* 8XY0 then a shift, with and without skip_shift_set
         UNION {On(<<Op(8, 2, 3, 0), Op(8, 2, 3, n)>>,
                   {Plain, [Plain EXCEPT !.quirks.skip_shift_set = TRUE]}) : n \in {6, 14}},
         \* a shift alone, also on VF, and the scenario of V2 = 0x0F, V3 = 0xF0
         UNION {On(<<Op(8, xy[1], xy[2], n)>>, ShiftQuirks) :
                  xy \in RegPairs, n \in {6, 14}},
         {Scenario(c, RomShift) : c \in {Plain, [Plain EXCEPT !.quirks.skip_shift_set = TRUE]}},
         \* 8XY1, 8XY2, 8XY3, with and without skip_reset_vf
         UNION {On(<<Op(8, 2, 3, n)>>,
                   {Plain, [Plain EXCEPT !.quirks.skip_reset_vf = TRUE]}) : n \in {1, 2, 3}},
         \* BNNN after V0 is drawn too, with and without jump_with_vx
         UNION {On(<<Op(12, 0, 15, 15), Op(11, x, 4, 6)>>, {Plain, JumpVxConfig}) :
                  x \in {0, 2, 3}},
         \* FX1E in a counted loop
         {Scenario(Plain, RomIndex)},
         \* FX33 of every byte, and of 123 across the end of the memory
         {Scenario(Plain, Assemble(<<OpLD(2, val), OpLDI(FontStart + 2), Op(15, 2, 3, 3)>>)) :
            val \in 0 .. 255},
         {Scenario(Plain, Assemble(<<OpLD(2, 123), OpLDI(a), Op(15, 2, 3, 3)>>)) :
            a \in {MemLength - 3, MemLength - 2}},
         \* FX55 then FX65, inside the memory and across its end, with every
         \* quirk off and with preserve_index
         UNION {On(<<OpLDI(a), Op(15, x, 5, 5), Op(15, x, 6, 5)>>,
                   {NoInputConfig, [NoInputConfig EXCEPT !.quirks.preserve_index = TRUE]}) :
                  a \in {FontStart + 2, MemLength - 6}, x \in {0, 2, 3, 15}}}
InitAlu == (\E sc \in AluScenarios : InitWith(sc)) /\ NoProbe
NextAlu == PlayLoad \/ LoopGuard \/ Drain \/ ExecuteStep
SpecAlu == InitAlu /\ [][NextAlu]_vars

\* the executor thread on its own, with the keyboard
CpuScenarios ==
    {Scenario(SkipDrawWaitConfig, RomFlow), Scenario(JumpVxConfig, RomFlow),
     Scenario(SkipDrawWaitConfig, RomAlu), Scenario(BaseConfig, RomSkipKey),
     Scenario(BaseConfig, RomKey), Scenario(NoInputConfig, RomRet),
     Scenario(NoInputConfig, RomCall), Scenario(SkipDrawWaitConfig, RomDraw),
     Scenario(NoInputConfig, RomJumpOut), Scenario(NoInputConfig, RomCallOut),
     Scenario(SkipDrawWaitConfig, RomSprites), Scenario(WrapConfig, RomSprites),
     Scenario(SkipDrawWaitConfig, RomEdge), Scenario(WrapConfig, RomEdge),
     Scenario([SkipDrawWaitConfig EXCEPT !.quirks.wrap_sprites = TRUE], RomEdge),
     Scenario(SkipDrawWaitConfig, RomFlagOrigin),
     Scenario(TightConfig, RomTail),
     \* the program over the last four bytes of the font
     Scenario(ConfigAt(FontStart, FontStart + Len(DefaultFont) - 4), RomRet),
     \* a program longer than the room after program_start
     Scenario(TightConfig, RomRet),
     \* no program, and program_start past the end of the memory
     Scenario(ConfigAt(FontStart, MemLength + 1), <<>>),
     \* a font that does not fit
     Scenario(ConfigAt(MemLength - 10, ProgramStart), RomRet)}
InitCpu == (\E sc \in CpuScenarios : InitWith(sc)) /\ NoProbe
NextCpu ==
    \/ LoadCall
    \/ PlayLoad \/ LoopGuard \/ Drain \/ ExecuteStep \/ KeyWait \/ KeyChange
SpecCpu == InitCpu /\ [][NextCpu]_vars

\* the whole machine
\* the executor, the display ticker and the timer workers on a program that
\* draws and clears
\* draws and clears, with a display and an audio backend and without them
InitFrame ==
    /\ \E c \in {SkipDrawWaitConfig,
                  [SkipDrawWaitConfig EXCEPT !.has_display = FALSE, !.has_audio = FALSE]} :
         InitWith(Scenario(c, RomFrame))
    /\ NoProbe
NextFrame ==
    \/ PlayLoad \/ LoopGuard \/ Drain \/ ExecuteStep
    \/ TickerSend \/ TickerRaise
    \/ \E t \in TimerIds : WorkerGuard(t) \/ WorkerLoad(t) \/ WorkerStore(t) \/ WorkerSend(t)
\* the sound timer set, Ctrl-C, and the machine dropped after play
\* (nothing in this program overflows, so one build stands for both)
InitDrop ==
    /\ InitWith(Scenario(NoInputConfig, RomSound))
    /\ overflow_checks = FALSE /\ probe = <<>> /\ outcome = <<>>
NextDrop ==
    \/ PlayLoad \/ LoopGuard \/ Drain \/ ExecuteStep
    \/ TickerSend \/ TickerRaise
    \/ \E t \in TimerIds : WorkerGuard(t) \/ WorkerLoad(t) \/ WorkerStore(t) \/ WorkerSend(t)
    \/ Shutdown
    \/ \E t \in TimerIds : DropTimer(t)
    \/ Dropped
SpecDrop == InitDrop /\ [][NextDrop]_vars
\* every thread is scheduled whenever it can run
FairSpecDrop ==
    /\ SpecDrop
    /\ WF_vars(PlayLoad \/ LoopGuard \/ Drain \/ ExecuteStep)
    /\ WF_vars(TickerSend \/ TickerRaise)
    /\ \A t \in TimerIds :
         WF_vars(WorkerGuard(t) \/ WorkerLoad(t) \/ WorkerStore(t) \/ WorkerSend(t))
    /\ WF_vars((\E t \in TimerIds : DropTimer(t)) \/ Dropped)

\* the executor at its fastest on a program of DRWs that wait for the
\* window, with the display ticker and the sound worker ticking at the same
\* rate: a tick begins only when the executor is waiting in the draw wait, and
\* in each tick the ticker and the worker make one turn of their loops
InDrawWait == epc = "drawwait" /\ ~should_draw
InitRate == InitWith(Scenario(NoInputConfig, RomDraws)) /\ NoProbe
NextRate ==
    \/ PlayLoad \/ LoopGuard \/ Drain \/ ExecuteStep \/ DrawWait
    \/ (WorkerGuard("sound") /\ InDrawWait /\ ticker_pc = "guard")
    \/ (TickerSend /\ InDrawWait /\ tpc["sound"] # "guard")
    \/ (WorkerLoad("sound") /\ ticker_pc = "cas")
    \/ WorkerStore("sound") \/ WorkerSend("sound")
    \/ (TickerRaise /\ tpc["sound"] = "guard")
    \* the delay worker, which sends nothing, at any rate
    \/ WorkerGuard("delay") \/ WorkerLoad("delay") \/ WorkerStore("delay")
SpecRate == InitRate /\ [][NextRate]_vars

Init == (\E sc \in SyncScenarios \union TimerScenarios : InitWith(sc)) /\ NoProbe
Next ==
    \/ PlayLoad \/ LoopGuard \/ Drain \/ ExecuteStep \/ DrawWait \/ KeyWait
    \/ TickerSend \/ TickerRaise
    \/ \E t \in TimerIds : WorkerGuard(t) \/ WorkerLoad(t) \/ WorkerStore(t) \/ WorkerSend(t)
    \/ Shutdown \/ KeyChange
Spec == Init /\ [][Next]_vars
SpecFrame == InitFrame /\ [][NextFrame]_vars

(***************************************************************************)
(* A Memory on its own (src/src/memory.rs): probe is the buffer of a       *)
(* Memory::new(ProbeLen), outcome the last call made on it with what it    *)
(* returned.  One action per operation, over addresses and lengths on both *)
(* sides of the buffer's end and at the top of usize.                      *)
(***************************************************************************)
\* the length of that memory
ProbeLen == 2

ProbeAddrs == (0 .. ProbeLen) \union {UsizeMax}
ProbeLens == 0 .. (ProbeLen + 2)
ProbeBytes == {7, 9}

\* the machine left as constructed, for a call made on its own
Parked == InitWith(Scenario(NoInputConfig, RomRet)) /\ overflow_checks \in BOOLEAN

\* a call and what it returned
Answer(op, addr, len, data, r) ==
    [op |-> op, addr |-> addr, len |-> len, data |-> data, ok |-> r.ok,
     err |-> IF r.ok THEN <<>> ELSE r.err,
     val |-> IF r.ok /\ op = "read_byte" THEN <<r.val>>
             ELSE IF r.ok /\ op = "read_buf" THEN r.val ELSE <<>>]

InitMemory == Parked /\ probe = MemoryNew(ProbeLen) /\ outcome = <<>>

\* the machine's own variables, which a call made on its own leaves alone
machineVars ==
    <<config, rom, cpuVars, execVars, running, should_draw, chan, ticker_pc, timerVars,
      keys_pressed, backendVars, drawHistory, timerHistory, call_sites, overflow_checks>>

MemReadByte ==
    /\ \E addr \in ProbeAddrs :
         outcome' = Answer("read_byte", addr, 1, <<>>, ReadByte(probe, addr))
    /\ UNCHANGED <<probe, machineVars>>

MemReadBuf ==
    /\ \E addr \in ProbeAddrs, len \in ProbeLens :
         outcome' = Answer("read_buf", addr, len, <<>>, ReadBuf(probe, addr, len))
    /\ UNCHANGED <<probe, machineVars>>

MemWriteByte ==
    /\ \E addr \in ProbeAddrs, b \in ProbeBytes :
         /\ outcome' = Answer("write_byte", addr, 1, <<b>>, WriteByte(probe, addr, b))
         /\ probe' = WriteByte(probe, addr, b).buffer
    /\ UNCHANGED machineVars

MemWriteBuf ==
    /\ \E addr \in ProbeAddrs, len \in ProbeLens, b \in ProbeBytes :
         LET data == [k \in 1 .. len |-> b]
         IN /\ outcome' = Answer("write_buf", addr, len, data, WriteBuf(probe, addr, data))
            /\ probe' = WriteBuf(probe, addr, data).buffer
    /\ UNCHANGED machineVars

NextMemory == MemReadByte \/ MemReadBuf \/ MemWriteByte \/ MemWriteBuf
SpecMemory == InitMemory /\ [][NextMemory]_vars

(***************************************************************************)
(* Instruction::try_from called on its own: one 16-bit word is decoded and *)
(* the answer kept.  probe is the word, outcome what try_from returned.    *)
(***************************************************************************)
Words == 0 .. (Pow2(16) - 1)

InitDecode == Parked /\ probe = <<>> /\ outcome = <<>>

TryFrom ==
    /\ outcome = <<>>
    /\ \E opcode \in Words :
         /\ probe' = opcode
         /\ outcome' = Decode(opcode)
    /\ UNCHANGED machineVars

NextDecode == TryFrom
SpecDecode == InitDecode /\ [][NextDecode]_vars

(***************************************************************************)
(* Properties of the draw wait, the shutdown flag and FX0A (SpecSync).     *)
(***************************************************************************)
\* the executor step that runs the instruction at pc
ExecutesArm(arm) == epc = "exec" /\ epc' # "exec" /\ Arm(OpcodeAt(memory, pc)) = arm

\* C1: the number of DRW instructions that left the draw wait by consuming the
\* draw-window flag never exceeds the number of ticks that raised the flag.
C1_DrawsWithinTicks == released <= raised

\* two draws were released, each by a tick of its own
C1_Witness == released = 2 /\ raised = 2 /\ ~config.quirks.skip_draw_wait

\* C2: without shutdown, a DRW leaves its draw wait only after a tick that
\* happened once the sprite was in the frame buffer; a window opened by an
\* earlier tick does not release it.
C2_WaitsForNextTick ==
    [][(epc = "drawwait" /\ epc' = "guard" /\ running) => tick_in_wait]_vars

\* C3 (as stated): once the shutdown flag is set, play returns normally.
C3_ShutdownReturnsNormally == (~running) ~> (epc = "done")

\* C3: once the shutdown flag is set the executor leaves its loop, out of the
\* draw wait and out of the key-release wait too, with no further tick or key
\* event: play returns, or the instruction of the cycle in progress is fatal.
C3_ShutdownLeavesLoop == (~running) ~> (epc = "done" \/ epc = "panic")

\* shutdown while the DRW waits and no window is open
C3_Witness == ~running /\ epc = "drawwait" /\ ~should_draw

\* C4 (as stated): FX0A never completes while the remembered key is held.
C4_NeverCompletesWhileHeld ==
    [][(epc = "keywait" /\ epc' # "keywait") => wait_key[1] \notin keys_pressed]_vars

\* C4: FX0A with no key down is retried (PC back on the FX0A, V untouched); with
\* keys down it remembers one key of the snapshot and writes nothing yet; it
\* completes with V[x] = that key, and only once a poll shows the key is no
\* longer down or the shutdown flag is set.
C4_PressThenRelease ==
    [][/\ (ExecutesArm("FX0A") /\ config.has_input /\ keys_pressed = {})
            => (pc' = pc /\ v' = v /\ epc' = "guard")
       /\ (ExecutesArm("FX0A") /\ config.has_input /\ keys_pressed # {})
            => (epc' = "keywait" /\ wait_key'[1] \in keys_pressed /\ v' = v
                /\ pc' = pc + 2)
       /\ (epc = "keywait" /\ epc' # "keywait")
            => /\ wait_key[1] \notin keys_pressed \/ ~running
               /\ v' = [v EXCEPT ![FieldX(OpcodeAt(memory, pc - 2))] = wait_key[1]]
               /\ pc' = pc
      ]_vars

\* FX0A has completed with the key that was pressed and released
C4_Witness == rom = RomKey /\ v[2] \in Keys /\ v[2] \notin keys_pressed /\ running

(***************************************************************************)
(* Properties of the timers (SpecTimer).                                   *)
(***************************************************************************)
\* the tick of timer t that is under way loaded a non-zero value
InFlightDecrement(t) == tpc[t] = "loaded" /\ tcur[t] > 0

C6_NonIncreasing ==
    [][\A t \in TimerIds :
         set_epoch'[t] = set_epoch[t] => tvalue'[t] <= tvalue[t]]_vars

\* C7: a timer set to v holds v minus the number of ticks that began since the
\* set, down to 0.
C7_OnePerTick == \A t \in TimerIds : tvalue[t] = last_set[t] - ticks_since[t]

\* the number of tone events in a channel
RECURSIVE ToneCount(_)
ToneCount(q) ==
    IF q = <<>> THEN 0
    ELSE (IF Head(q) \in {"PlayTone", "StopTone"} THEN 1 ELSE 0) + ToneCount(Tail(q))

\* the sound worker's send step
SoundSends == tpc["sound"] = "send" /\ tpc'["sound"] # "send"

\* C8: each tick of the sound timer puts exactly one event on the channel,
\* PlayTone when it observed a non-zero value (the tick from 1 to 0 too) and
\* StopTone when it observed 0; nothing else puts a tone event there, and the
\* delay timer's tick never sends.
C8_OneEventPerTick ==
    [][/\ SoundSends =>
            chan' = Append(chan, IF tcur["sound"] > 0 THEN "PlayTone" ELSE "StopTone")
       /\ ~SoundSends => ToneCount(chan') <= ToneCount(chan)
       /\ (tpc["sound"] = "loaded" /\ tpc'["sound"] # "loaded") => tpc'["sound"] = "send"
       /\ tpc'["delay"] # "send"
       /\ (tpc'["delay"] # tpc["delay"]) => chan' = chan
      ]_vars

\* the tick that took the sound timer from 1 to 0 has sent PlayTone
C8_Witness ==
    /\ tpc["sound"] = "guard" /\ tcur["sound"] = 1 /\ tvalue["sound"] = 0
    /\ chan # <<>> /\ chan[Len(chan)] = "PlayTone"

(***************************************************************************)
(* Properties of CALL and RET (SpecSync).                                  *)
(***************************************************************************)
\* C9: a CALL nnn at address a pushes a + 2 and jumps to nnn; the stack holds,
\* innermost last, the address after each CALL not yet returned from; a RET
\* jumps to the address after the innermost such CALL and pops that one entry.
C9_CallReturn ==
    /\ [](/\ Len(stack) = Len(call_sites)
          /\ \A k \in 1..Len(stack) : stack[k] = call_sites[k] + 2)
    /\ [][/\ ExecutesArm("2NNN")
               => /\ pc' = FieldNNN(OpcodeAt(memory, pc))
                  /\ stack' = Append(stack, pc + 2)
          /\ (ExecutesArm("00EE") /\ stack # <<>>)
               => /\ pc' = call_sites[Len(call_sites)] + 2
                  /\ stack' = SubSeq(stack, 1, Len(stack) - 1)
         ]_vars

\* a CALL made inside a CALL has returned, the outer one has not
C9_Witness ==
    /\ rom = RomCall /\ epc = "guard"
    /\ pc = ProgramStart + 8 /\ stack = <<ProgramStart + 2>>

\* C10: a RET with an empty stack ends execution with the stack-underflow
\* failure, the stack still empty; after a failure the executor takes no step.
C10_UnderflowIsFatal ==
    [][/\ (ExecutesArm("00EE") /\ stack = <<>>)
            => (epc' = "panic" /\ failure' = <<"StackUnderflow">> /\ stack' = <<>>)
       /\ epc = "panic" => UNCHANGED <<cpuVars, execVars>>
      ]_vars

\* the second RET of RomRet found the stack empty
C10_Witness == rom = RomRet /\ epc = "panic" /\ failure = <<"StackUnderflow">>

(***************************************************************************)
(* Properties of a cycle of the executor on its own (SpecCpu).             *)
(***************************************************************************)
\* the step is a cycle's fetch and instruction, and the instruction went through
CycleDone == epc = "exec" /\ epc' \notin {"exec", "panic"}

\* C11: after a cycle PC is PC before the cycle plus 2, unless the
\* instruction is a jump (1NNN: nnn; BNNN: nnn plus the offset register), a
\* call (nnn), a return (the popped address), a taken skip (plus 4) or the
\* FX0A that found no key down (PC before the cycle).
C11_PcAfterCycle ==
    [][CycleDone =>
         LET opcode == OpcodeAt(memory, pc)
             arm == Arm(opcode)
             x == FieldX(opcode)
             y == FieldY(opcode)
             nn == FieldNN(opcode)
             nnn == FieldNNN(opcode)
             down == (v[x] % 16) \in keys_pressed
             Skip(taken) == IF taken THEN pc + 4 ELSE pc + 2
         IN pc' = CASE arm = "1NNN" -> nnn
                    [] arm = "BNNN" ->
                         nnn + v[IF config.quirks.jump_with_vx THEN (nnn \div 256) % 16 ELSE 0]
                    [] arm = "2NNN" -> nnn
                    [] arm = "00EE" -> stack[Len(stack)]
                    [] arm = "3XNN" -> Skip(v[x] = nn)
                    [] arm = "4XNN" -> Skip(v[x] # nn)
                    [] arm = "5XY0" -> Skip(v[x] = v[y])
                    [] arm = "9XY0" -> Skip(v[x] # v[y])
                    [] arm = "EX9E" -> Skip(down)
                    [] arm = "EXA1" -> Skip(~down)
                    [] arm = "FX0A" -> IF keys_pressed = {} THEN pc ELSE pc + 2
                    [] OTHER -> pc + 2
      ]_vars

\* the skips, the call, the return and both BNNNs of RomFlow are done, the
\* last with its offset taken from V1
C11_Witness ==
    rom = RomFlow /\ config.quirks.jump_with_vx /\ epc = "guard" /\ pc = 256 + 4

\* C12: at the start of every fetch 0 <= PC < memory length.
C12_PcInMemory == epc = "exec" => (0 <= pc /\ pc < config.memory.length)

\* C12 as the code has it: a fetch reads an opcode exactly when PC and PC + 1
\* are both inside the memory; any other fetch is fatal with
\* RangeOutOfBounds(PC, 2) and nothing is executed.
C12_FetchChecked ==
    [][(epc = "exec" /\ epc' # "exec") =>
         ((pc + 1 >= config.memory.length)
            <=> (/\ epc' = "panic"
                 /\ failure' = <<"RangeOutOfBounds", pc, 2>>
                 /\ UNCHANGED cpuVars))
      ]_vars

\* the call of the last byte of the memory: PC is inside, the fetch is fatal
C12_Witness ==
    /\ rom = RomCallOut /\ epc = "panic" /\ pc = config.memory.length - 1
    /\ failure = <<"RangeOutOfBounds", pc, 2>>

\* the range of len bytes at addr is one write_buf accepts
Fits(addr, len) == len < 1 \/ addr + len <= config.memory.length

\* the address is one the program was written to
InRom(a) == config.memory.program_start <= a /\ a < config.memory.program_start + Len(rom)

\* the step is play's load of the font and the program
Loads == epc = "init" /\ epc' # "init"

\* C16: before the first fetch the 80 bytes at font_start are the default
\* font and the bytes at program_start are the ROM; a ROM with
\* program_start + len > memory length is a fatal load error and no
\* instruction is executed; a program loaded before is overwritten.
C16_Loaded ==
    [][Loads =>
         LET m == config.memory
         IN /\ (m.program_start + Len(rom) > m.length) => epc' = "panic"
            /\ epc' = "guard" =>
                 /\ \A k \in 0 .. (Len(m.default_font) - 1) :
                      memory'[m.font_start + k] = m.default_font[k + 1]
                 /\ \A k \in 0 .. (Len(rom) - 1) :
                      memory'[m.program_start + k] = rom[k + 1]
      ]_vars

\* C16 as the code has it: the load succeeds exactly when the font and a
\* ROM that is not empty end inside the memory (an empty ROM is accepted at
\* every program_start); then the ROM's bytes are at program_start, the font's
\* bytes are at font_start except where the ROM was written over them, and
\* every other byte is as it was, the rest of a longer program loaded before
\* included.  A load that fails is fatal and no instruction is executed.
C16_LoadedRomOverFont ==
    /\ []((~Fits(config.memory.font_start, Len(config.memory.default_font))
           \/ ~Fits(config.memory.program_start, Len(rom)))
            => (epc \in {"init", "panic"} /\ pc = config.memory.program_start
                /\ stack = <<>> /\ v = [r \in Regs |-> 0]))
    /\ [][Loads =>
            LET m == config.memory
                font == m.default_font
                InFont(a) == m.font_start <= a /\ a < m.font_start + Len(font)
            IN /\ epc' = "guard"
                    <=> (Fits(m.font_start, Len(font)) /\ Fits(m.program_start, Len(rom)))
               /\ epc' # "guard" =>
                    /\ epc' = "panic"
                    /\ failure' \in {<<"RangeOutOfBounds", m.font_start, Len(font)>>,
                                     <<"RangeOutOfBounds", m.program_start, Len(rom)>>}
               /\ epc' = "guard" =>
                    \A a \in DOMAIN memory :
                      memory'[a] = IF InRom(a) THEN rom[a - m.program_start + 1]
                                   ELSE IF InFont(a) THEN font[a - m.font_start + 1]
                                   ELSE memory[a]
         ]_vars

\* loaded over the end of the font, after a longer program was loaded there
C16_Witness ==
    /\ epc = "guard" /\ pc = config.memory.program_start /\ stack = <<>>
    /\ config.memory.program_start = FontStart + Len(DefaultFont) - 4
    /\ outcome # <<>> /\ outcome.ok /\ Len(outcome.data) > Len(rom)
    /\ \A a \in DOMAIN memory : InRom(a) => memory[a] = rom[a - config.memory.program_start + 1]
    /\ memory[config.memory.program_start + Len(rom)]
         = outcome.data[Len(rom) + 1]

(***************************************************************************)
(* Properties of DXYN (SpecCpu).  A DRW that completed is described from   *)
(* the state before it: the sprite bits that are drawn, the cell each one  *)
(* lands on, and how often each cell is landed on.                         *)
(***************************************************************************)
\* the step is a DRW that drew
Draws == CycleDone /\ Arm(OpcodeAt(memory, pc)) = "DXYN"

DrwOpcode == OpcodeAt(memory, pc)
\* the sprite: the N bytes at I
DrwSprite == [layer \in 0 .. (FieldN(DrwOpcode) - 1) |-> memory[i + layer]]
\* V[x] and V[y] as the instruction reads them, after it has cleared VF
DrwReg(r) == IF r = VF THEN 0 ELSE v[r]
DrwX == DrwReg(FieldX(DrwOpcode)) % config.display.width
DrwY == DrwReg(FieldY(DrwOpcode)) % config.display.height
\* bit position of a sprite row, leftmost first
SpriteBit(layer, position) == (DrwSprite[layer] \div Pow2(7 - position)) % 2
\* the 1-bits of the sprite
SpriteOnes ==
    {lp \in (DOMAIN DrwSprite) \X (0 .. 7) : SpriteBit(lp[1], lp[2]) = 1}
\* the 1-bits that are drawn: all of them when sprites wrap, else those that
\* fall inside the display
DrawnOnes ==
    {lp \in SpriteOnes :
       config.quirks.wrap_sprites
       \/ (DrwY + lp[1] < config.display.height /\ DrwX + lp[2] < config.display.width)}
\* the cell a drawn bit lands on
CellOf(lp) ==
    ((DrwY + lp[1]) % config.display.height) * config.display.width
      + ((DrwX + lp[2]) % config.display.width)
\* how many drawn 1-bits land on a cell
Landings(c) == Cardinality({lp \in DrawnOnes : CellOf(lp) = c})
\* how many of them find the cell true: every other one, from the first when
\* the cell was true before the DRW and from the second when it was not
CollisionsAt(c) ==
    IF frame_buffer[c] THEN (Landings(c) + 1) \div 2 ELSE Landings(c) \div 2

\* the collisions on a set of cells
RECURSIVE CollisionsOn(_)
CollisionsOn(cells) ==
    IF cells = {} THEN 0
    ELSE LET c == CHOOSE e \in cells : TRUE
         IN CollisionsAt(c) + CollisionsOn(cells \ {c})

Collisions == CollisionsOn(DOMAIN frame_buffer)
LitBefore == Cardinality({c \in DOMAIN frame_buffer : frame_buffer[c]})
LitAfter == Cardinality({c \in DOMAIN frame_buffer : frame_buffer'[c]})
Changed == Cardinality({c \in DOMAIN frame_buffer : frame_buffer'[c] # frame_buffer[c]})

\* C19: the number of cells whose value differs before and after a DRW is
\* the number of 1-bits in the sprite minus twice the number of collisions.
C19_ChangedCells ==
    [][Draws => Changed = Cardinality(SpriteOnes) - 2 * Collisions]_vars

\* C19 as the code has it: the cells that differ are those an odd number of
\* drawn 1-bits land on (all the cells landed on when no cell is landed on
\* twice), and it is the number of lit cells that changes by the number of
\* drawn 1-bits minus twice the number of collisions.
C19_LitCells ==
    [][Draws =>
         /\ Changed = Cardinality({c \in DOMAIN frame_buffer : Landings(c) % 2 = 1})
         /\ LitAfter - LitBefore = Cardinality(DrawnOnes) - 2 * Collisions
      ]_vars

\* three rows drawn on the empty display of two rows: the third row landed on
\* the first, two cells were landed on twice and are dark, and VF is 1
C19_Witness ==
    /\ rom = RomSprites /\ config.quirks.wrap_sprites /\ epc = "guard"
    /\ pc = ProgramStart + 14 /\ v[VF] = 1
    /\ {c \in DOMAIN frame_buffer : frame_buffer[c]}
         = {1, 2, DisplayWidth, DisplayWidth + 3}

\* C20: after a DRW, VF = 1 if and only if a drawn 1-bit landed on a cell
\* that was true, and VF = 0 otherwise, whatever VF held before; each drawn
\* 1-bit toggles its cell and 0-bits leave cells unchanged.
C20_CollisionFlag ==
    [][Draws =>
         /\ v'[VF] = IF Collisions > 0 THEN 1 ELSE 0
         /\ \A c \in DOMAIN frame_buffer :
              frame_buffer'[c] = (frame_buffer[c] # (Landings(c) % 2 = 1))
         /\ \A r \in Regs \ {VF} : v'[r] = v[r]
      ]_vars

\* VF was set, the DRW of no rows is done, and VF is 0
C20_Witness ==
    /\ rom = RomSprites /\ epc = "guard" /\ pc = ProgramStart + 10 /\ v[VF] = 0
    /\ \A c \in DOMAIN frame_buffer : ~frame_buffer[c]

\* the cell at column cx of row cy
CellAt(cx, cy) == cy * config.display.width + cx
\* the cell differs before and after the step
Differs(c) == frame_buffer'[c] # frame_buffer[c]
\* the sprite positions: row and bit, both from 0
SpritePositions == (DOMAIN DrwSprite) \X (0 .. 7)

\* C21: with wrap_sprites off a sprite bit at position p of row r is applied
\* only if x0 + p < width and y0 + r < height, and clipped bits change neither
\* the frame buffer nor VF; a sprite drawn with x0 = width - 1 renders exactly
\* one column, the most significant bit of each row.
C21_Clips ==
    [][(Draws /\ ~config.quirks.wrap_sprites) =>
         LET w == config.display.width
             h == config.display.height
             Applied == {rp \in SpritePositions :
                           /\ DrwX + rp[2] < w /\ DrwY + rp[1] < h
                           /\ SpriteBit(rp[1], rp[2]) = 1}
             Target(rp) == CellAt(DrwX + rp[2], DrwY + rp[1])
         IN /\ \A c \in DOMAIN frame_buffer :
                 Differs(c) <=> \E rp \in Applied : Target(rp) = c
            /\ v'[VF] = IF \E rp \in Applied : frame_buffer[Target(rp)] THEN 1 ELSE 0
            /\ DrwX = w - 1 =>
                 \A cx \in 0 .. (w - 1), cy \in 0 .. (h - 1) :
                   Differs(CellAt(cx, cy))
                     <=> /\ cx = w - 1
                         /\ cy - DrwY \in DOMAIN DrwSprite
                         /\ DrwSprite[cy - DrwY] >= 128
      ]_vars

\* the rows 0xA5 and 0x5A drawn at x0 = width - 1: one cell lit, in the last
\* column of the first row
C21_Witness ==
    /\ rom = RomEdge /\ ~config.quirks.wrap_sprites /\ epc = "guard"
    /\ pc = ProgramStart + 8
    /\ {c \in DOMAIN frame_buffer : frame_buffer[c]} = {DisplayWidth - 1}

\* C22: with wrap_sprites on every sprite bit is applied at
\* ((x0 + p) mod width, (y0 + r) mod height) and none is dropped; a sprite
\* drawn with x0 = width - 3 renders its first three columns at
\* x = width - 3 .. width - 1 and its other five columns at x = 0 .. 4.
C22_Wraps ==
    [][(Draws /\ config.quirks.wrap_sprites) =>
         LET w == config.display.width
             h == config.display.height
             Target(rp) == CellAt((DrwX + rp[2]) % w, (DrwY + rp[1]) % h)
             Ones(c) == {rp \in SpritePositions :
                           SpriteBit(rp[1], rp[2]) = 1 /\ Target(rp) = c}
             Column(p) == IF p < 3 THEN w - 3 + p ELSE p - 3
         IN /\ \A c \in DOMAIN frame_buffer : Differs(c) <=> Cardinality(Ones(c)) % 2 = 1
            /\ (DrwX = w - 3 /\ FieldN(DrwOpcode) <= h /\ w >= 8) =>
                 \A rp \in SpritePositions :
                   Differs(CellAt(Column(rp[2]), (DrwY + rp[1]) % h))
                     <=> SpriteBit(rp[1], rp[2]) = 1
      ]_vars

\* the rows 0xA5 and 0x5A drawn at x0 = width - 3 on the last row of the
\* display: the second row has wrapped to the top, and both rows round the
\* right edge
C22_Witness ==
    /\ rom = RomEdge /\ config.quirks.wrap_sprites /\ epc = "guard"
    /\ config.display.height = DisplayHeight /\ pc = ProgramStart + 14
    /\ {cx \in 0 .. (DisplayWidth - 1) : frame_buffer[CellAt(cx, DisplayHeight - 1)]}
         = {DisplayWidth - 3, DisplayWidth - 1, 2, 4}
    /\ frame_buffer[CellAt(3, 0)] /\ v[VF] = 1

(***************************************************************************)
(* Properties of the frame buffer with every thread running (SpecFrame).   *)
(***************************************************************************)
\* C23: the frame buffer always has exactly width * height cells, starts all
\* false, and is modified only by DRW and CLS: every other instruction,
\* every event dispatch and every worker tick leaves all cells unchanged;
\* CLS sets every cell to false.
C23_FrameBuffer ==
    /\ [](/\ DOMAIN frame_buffer = 0 .. (config.display.width * config.display.height - 1)
          /\ epc = "init" => \A c \in DOMAIN frame_buffer : ~frame_buffer[c])
    /\ [][/\ frame_buffer' # frame_buffer
               => (epc = "exec" /\ epc' # "exec"
                   /\ Arm(OpcodeAt(memory, pc)) \in {"DXYN", "00E0"})
          /\ (CycleDone /\ Arm(OpcodeAt(memory, pc)) = "00E0")
               => \A c \in DOMAIN frame_buffer : ~frame_buffer'[c]
         ]_vars

\* the glyph row was drawn, a register loaded over the lit display, the
\* display cleared and the clear dispatched, after a display tick and a tick
\* of the sound timer
C23_Witness ==
    /\ rom = RomFrame /\ epc = "exec" /\ pc = ProgramStart + 12
    /\ v[2] = 5 /\ \A c \in DOMAIN frame_buffer : ~frame_buffer[c]
    /\ displayed = frame_buffer
    /\ raised >= 1 /\ ticks_since["sound"] >= 1

(***************************************************************************)
(* The end of the tone (FairSpecTimer).                                    *)
(***************************************************************************)
\* the timer was set and has run out, stop_tone was the last call to the audio backend,
\* no PlayTone waits in the channel and the worker is not about to send one
ToneOver ==
    /\ last_set["sound"] > 0
    /\ audio = "silent" /\ tvalue["sound"] = 0 /\ tcur["sound"] = 0
    /\ \A k \in 1 .. Len(chan) : chan[k] # "PlayTone"

\* C39: the tone eventually stops: if the sound timer is set to v > 0 and
\* not set again, and the executor keeps cycling, then eventually stop_tone
\* is dispatched to the audio backend and no play_tone is dispatched after
\* it (the last sound event delivered is StopTone).
C39_ToneStops ==
    \* the set value makes the tone play
    /\ tvalue["sound"] > 0 ~> audio = "tone"
    \* then the backend is silenced
    /\ last_set["sound"] > 0 ~> ToneOver
    \* and no PlayTone is sent or dispatched afterwards
    /\ [][ToneOver => ToneOver']_vars

\* the sound timer was set to 2 and has run out, the PlayTones were
\* dispatched and a StopTone after them, and another StopTone waits
C39_Witness ==
    /\ rom = RomSound /\ last_set["sound"] = 2 /\ tvalue["sound"] = 0
    /\ tcur["sound"] = 0 /\ audio = "silent" /\ chan = <<"StopTone">>
    /\ epc = "exec"

(***************************************************************************)
(* The length of the event channel (SpecRate).                             *)
(***************************************************************************)
\* C38: the number of events pending in the event channel stays bounded in
\* every execution: the producers (the display ticker and the sound timer,
\* once per tick each, and CLS) never outpace the executor's drain of one
\* event per cycle, also when skip_draw_wait is off and the program executes
\* DRW on every cycle, so that the executor retires one cycle per tick.  In
\* the model the channel is cut off at MaxChan events: bounded means that
\* the cut is never reached.
C38_ChannelBounded == Len(chan) < MaxChan

\* the backlog after each tick: k events wait when the executor is parked in
\* its draw wait for the (k + 1)-th time
C38_GrowsByOnePerTick ==
    (InDrawWait /\ ticker_pc = "guard" /\ tpc["sound"] = "guard") => Len(chan) = released

\* two ticks have passed, two DRWs were released, and three events wait
C38_Diverges ==
    /\ rom = RomDraws /\ released = 2 /\ raised = 2 /\ Len(chan) = MaxChan

(***************************************************************************)
(* A timer written while its worker ticks (SpecTimer).                     *)
(***************************************************************************)
\* C37: an explicit timer write is never lost to a concurrent tick: after
\* set(v), every get() before the next set returns a value <= v, also when
\* the worker's tick loaded the old value before the set and stores its
\* decrement after it.
C37_SetNotLost == \A t \in TimerIds : tvalue[t] <= last_set[t]

\* the delay timer was set to 2 and then to 0, and holds 1: the tick that
\* loaded 2 before the second set has stored its decrement after it
C37_Diverges ==
    /\ rom = RomDelay /\ last_set["delay"] = 0 /\ set_epoch["delay"] = 2
    /\ tcur["delay"] = 2 /\ tvalue["delay"] = 1

(***************************************************************************)
(* The origin of a DRW whose operand is VF (SpecCpu).                      *)
(***************************************************************************)
\* C36: DRW computes its origin from the register values held before the
\* instruction and only then clears VF: x0 = V[x_reg] mod width and
\* y0 = V[y_reg] mod height use the old values even when x_reg or y_reg is F.
C36_OriginFromOldRegisters ==
    [][Draws =>
         LET w == config.display.width
             h == config.display.height
             x0 == v[FieldX(DrwOpcode)] % w
             y0 == v[FieldY(DrwOpcode)] % h
             Applied == {rp \in SpritePositions :
                           /\ SpriteBit(rp[1], rp[2]) = 1
                           /\ \/ config.quirks.wrap_sprites
                              \/ x0 + rp[2] < w /\ y0 + rp[1] < h}
             Target(rp) == CellAt((x0 + rp[2]) % w, (y0 + rp[1]) % h)
         IN \A c \in DOMAIN frame_buffer :
              Differs(c) <=> Cardinality({rp \in Applied : Target(rp) = c}) % 2 = 1
      ]_vars

\* DF11 with VF = 3 and V1 = 1 has drawn the row 0xF0 at column 0 of row 1,
\* not at column 3
C36_Diverges ==
    /\ rom = RomFlagOrigin /\ epc = "guard" /\ pc = ProgramStart + 8
    /\ {c \in DOMAIN frame_buffer : frame_buffer[c]}
         = {DisplayWidth + k : k \in 0 .. 3}

(***************************************************************************)
(* The drain of the event channel (SpecFrame).                             *)
(***************************************************************************)
\* the executor's step from the drain to the fetch
Drains == epc = "drain" /\ epc' # "drain"

\* C35: each executor cycle drains at most one pending event before the
\* fetch, and events are dispatched in the order they were sent: PlayTone to
\* audio.play_tone, StopTone to audio.stop_tone, Draw to display.draw with
\* the current frame buffer; an empty channel or a missing backend is not an
\* error and the cycle goes on.
C35_DrainsOneInOrder ==
    \* the channel loses its oldest event or gains a newest one, and only
    \* the drain takes one
    /\ [][/\ \/ chan' = chan
             \/ chan # <<>> /\ chan' = Tail(chan)
             \/ \E e \in {"Draw", "PlayTone", "StopTone"} : chan' = Append(chan, e)
          /\ Len(chan') < Len(chan) => Drains]_vars
    \* the backends change in the drain only
    /\ [][<<audio, displayed>>' # <<audio, displayed>> => Drains]_vars
    /\ [][Drains =>
            /\ epc' = "exec" /\ failure' = failure
            /\ IF chan = <<>>
               THEN UNCHANGED <<chan, audio, displayed>>
               ELSE /\ chan' = Tail(chan)
                    /\ audio' = IF ~config.has_audio THEN audio
                                ELSE IF Head(chan) = "PlayTone" THEN "tone"
                                ELSE IF Head(chan) = "StopTone" THEN "silent"
                                ELSE audio
                    /\ displayed' = IF config.has_display /\ Head(chan) = "Draw"
                                    THEN frame_buffer ELSE displayed]_vars

\* a PlayTone has been dispatched, the events sent after it still wait, and
\* the display shows the sprite a Draw event brought
C35_Witness ==
    /\ epc = "exec" /\ audio = "tone" /\ Len(chan) = 2 /\ chan[1] = "StopTone"
    /\ displayed = frame_buffer /\ \E c \in DOMAIN frame_buffer : frame_buffer[c]

(***************************************************************************)
(* The end of the worker threads (FairSpecDrop).                           *)
(***************************************************************************)
\* C34: after the shutdown flag is set the display ticker leaves its loop
\* within one tick; after a timer is dropped its worker sees the stop flag
\* and exits within one tick, and the join completes; no worker keeps
\* running or sending events for ever after the teardown.
C34_WorkersStop ==
    \* the ticker's first test of the flag after the shutdown is its exit
    /\ [][(~running /\ ticker_pc = "guard" /\ ticker_pc' # "guard")
            => ticker_pc' = "exited"]_vars
    \* a worker's first test of its flag after the drop is its exit, and
    \* there is one tick between two tests
    /\ [][\A t \in TimerIds :
            /\ (~trunning[t] /\ tpc[t] = "guard" /\ tpc'[t] # "guard") => tpc'[t] = "exited"
            /\ (tpc'[t] = "loaded" /\ tpc[t] # "loaded") => tpc[t] = "sleep"
            /\ (tpc'[t] = "sleep" /\ tpc[t] # "sleep") => tpc[t] = "guard"]_vars
    \* once the flag is set the ticker exits, play returns, the workers exit
    \* and both joins return
    /\ ~running ~> (/\ ticker_pc = "exited"
                    /\ \A t \in TimerIds : ~trunning[t] /\ tpc[t] = "exited"
                    /\ epc = "dropped")
    \* a thread that has left its loop stays out, and sends nothing
    /\ [][/\ ticker_pc = "exited" => ticker_pc' = "exited"
          /\ \A t \in TimerIds : tpc[t] = "exited" => tpc'[t] = "exited"
          /\ (ticker_pc = "exited" /\ \A t \in TimerIds : tpc[t] = "exited")
               => chan' = chan]_vars

\* the machine is dropped with the sound timer still running: its worker
\* has exited with the value it had reached, and the ticker has exited too
C34_Witness ==
    /\ epc = "dropped" /\ ticker_pc = "exited"
    /\ \A t \in TimerIds : tpc[t] = "exited" /\ ~trunning[t]
    /\ tvalue["sound"] = 1

(***************************************************************************)
(* FX0A without an input backend (FairSpecSync).                           *)
(***************************************************************************)
\* the executor is about to run FX0A and there is no input backend
KeyWithoutInput ==
    epc = "exec" /\ Arm(OpcodeAt(memory, pc)) = "FX0A" /\ ~config.has_input
MissingInputPanic == epc = "panic" /\ failure = <<"MissingInput">>

\* C33: FX0A executed when no input backend is attached is fatal
\* (MissingInput): execution ends without writing V[x] and without retrying;
\* it never waits for ever.
C33_MissingInputFatal ==
    /\ [][(KeyWithoutInput /\ epc' # "exec") => (MissingInputPanic' /\ v' = v)]_vars
    /\ [][MissingInputPanic => (MissingInputPanic' /\ v' = v /\ pc' = pc)]_vars
    /\ (KeyWithoutInput ~> MissingInputPanic)

\* the FX0A of RomKey has ended play, V2 unwritten
C33_Witness ==
    /\ rom = RomKey /\ ~config.has_input /\ MissingInputPanic
    /\ pc = ProgramStart + 2 /\ v[2] = 0

(***************************************************************************)
(* Properties of single instructions (SpecAlu).  The instruction of the    *)
(* step is read from the memory at pc, its operands from the registers     *)
(* before the step.                                                        *)
(***************************************************************************)
\* the step is a completed cycle of one of the arms
Done(arms) == CycleDone /\ Arm(OpcodeAt(memory, pc)) \in arms
OpX == FieldX(OpcodeAt(memory, pc))
OpY == FieldY(OpcodeAt(memory, pc))
OpNN == FieldNN(OpcodeAt(memory, pc))
OpNNN == FieldNNN(OpcodeAt(memory, pc))
Flag(cond) == IF cond THEN 1 ELSE 0

\* what 8XY4, 8XY5 and 8XY7 compute from the operands held before
ArithResult ==
    LET arm == Arm(OpcodeAt(memory, pc))
    IN IF arm = "8XY4" THEN (v[OpX] + v[OpY]) % 256
       ELSE IF arm = "8XY5" THEN (v[OpX] - v[OpY]) % 256
       ELSE (v[OpY] - v[OpX]) % 256
ArithFlag ==
    LET arm == Arm(OpcodeAt(memory, pc))
    IN IF arm = "8XY4" THEN Flag(v[OpX] + v[OpY] > 255)
       ELSE IF arm = "8XY5" THEN Flag(v[OpX] >= v[OpY])
       ELSE Flag(v[OpY] >= v[OpX])

\* C24: 8XY4 gives V[x] = (V[x] + V[y]) mod 256 and VF = 1 iff the sum > 255;
\* 8XY5 gives V[x] = (V[x] - V[y]) mod 256 and VF = 1 iff V[x] >= V[y]; 8XY7
\* gives V[x] = (V[y] - V[x]) mod 256 and VF = 1 iff V[y] >= V[x]; all from
\* the operand values held before the instruction.
C24_Arithmetic ==
    [][Done({"8XY4", "8XY5", "8XY7"}) => (v'[OpX] = ArithResult /\ v'[VF] = ArithFlag)]_vars

\* C24 as the code has it: the result is written to V[x] and the flag to VF
\* after it, so with x = F it is the flag that VF holds; no other register
\* changes.
C24_ArithmeticFlagLast ==
    [][Done({"8XY4", "8XY5", "8XY7"})
         => v' = [[v EXCEPT ![OpX] = ArithResult] EXCEPT ![VF] = ArithFlag]]_vars

\* 8F34 on VF = 1 and V3 = 255: the sum is 256, and VF holds the carry 1
\* rather than the result 0
C24_Witness ==
    /\ rom = RomOps(<<Op(8, 15, 3, 4)>>) /\ epc = "guard" /\ pc = ProgramStart + 8
    /\ v[3] = 255 /\ v[VF] = 1

\* the arms that write a result and then a flag
FlagArms == {"8XY4", "8XY5", "8XY6", "8XY7", "8XYE"}

\* the register a shift reads
ShiftSource == IF config.quirks.skip_shift_set THEN OpX ELSE OpY

\* the result of the instruction at pc, from the registers before it
FlagArmResult ==
    LET arm == Arm(OpcodeAt(memory, pc))
    IN CASE arm = "8XY4" -> (v[OpX] + v[OpY]) % 256
         [] arm = "8XY5" -> (v[OpX] - v[OpY]) % 256
         [] arm = "8XY7" -> (v[OpY] - v[OpX]) % 256
         [] arm = "8XY6" -> v[ShiftSource] \div 2
         [] arm = "8XYE" -> (2 * v[ShiftSource]) % 256

\* its carry, no-borrow or shifted-out bit, from the registers before it
FlagArmBit ==
    LET arm == Arm(OpcodeAt(memory, pc))
    IN CASE arm = "8XY4" -> Flag(v[OpX] + v[OpY] > 255)
         [] arm = "8XY5" -> Flag(v[OpX] >= v[OpY])
         [] arm = "8XY7" -> Flag(v[OpY] >= v[OpX])
         [] arm = "8XY6" -> v[ShiftSource] % 2
         [] arm = "8XYE" -> v[ShiftSource] \div 128

\* C40: for 8XY4, 8XY5, 8XY6, 8XY7 and 8XYE the flag is written last: when
\* x = 0xF the final value of VF is the carry / no-borrow / shifted-out bit,
\* not the arithmetic result, and when y = 0xF the operand used is the value
\* VF held before the instruction.
C40_FlagWrittenLast ==
    [][Done(FlagArms) =>
         /\ v'[VF] = FlagArmBit
         /\ OpX # VF => v'[OpX] = FlagArmResult
         /\ \A r \in DOMAIN v : r \notin {OpX, VF} => v'[r] = v[r]]_vars

\* 8FF5 has run: VF - VF is 0 without a borrow, and VF holds the bit 1, not
\* the result 0
C40_Witness ==
    /\ rom = RomOps(<<Op(8, 15, 15, 5)>>) /\ epc = "guard" /\ pc = ProgramStart + 8
    /\ v[VF] = 1

\* C25: 7XNN sets V[x] to (V[x] + nn) mod 256 for every x and nn, and leaves
\* VF and every other register unchanged (x /= F).
C25_AddImmediate ==
    [][(Done({"7XNN"}) /\ OpX # VF) => v' = [v EXCEPT ![OpX] = (v[OpX] + OpNN) % 256]]_vars

\* what the arm computes: nn added to the register that the high nibble of nn
\* names
C25_AddsToVy ==
    [][Done({"7XNN"}) => v' = [v EXCEPT ![OpX] = (v[OpY] + OpNN) % 256]]_vars

\* 7235 on V2 = 1, V3 = 240 leaves V2 = 240 + 0x35 - 256 = 37, not 1 + 0x35
C25_Diverges ==
    /\ rom = RomOps(<<Op(7, 2, 3, 5)>>) /\ epc = "guard" /\ pc = ProgramStart + 8
    /\ v[3] = 240 /\ v[2] = 37

\* the shift scenario has run 8230 and 8236
ShiftScenarioRun == rom = RomShift /\ epc = "guard" /\ pc = ProgramStart + 8

\* C26: from V2 = 0x0F, V3 = 0xF0, executing 8230 then 8236 produces
\* V2 = 0x78, VF = 0 when skip_shift_set = false, and V2 = 0x07, VF = 1 when
\* skip_shift_set = true.
C26_ShiftScenario ==
    ShiftScenarioRun =>
        IF config.quirks.skip_shift_set THEN v[2] = 7 /\ v[VF] = 1
        ELSE v[2] = 120 /\ v[VF] = 0

\* C26 as the code has it: 8230 has copied V3 into V2, so 8236 shifts 0xF0 in
\* both modes and produces V2 = 0x78, VF = 0; in general 8XY6 puts V[r] >> 1
\* in V[x] and then bit 0 of V[r] in VF, where r is x under skip_shift_set
\* and y without it.
C26_ShiftScenarioSame ==
    /\ [](ShiftScenarioRun => (v[2] = 120 /\ v[3] = 240 /\ v[VF] = 0))
    /\ [][Done({"8XY6"}) =>
            LET r == IF config.quirks.skip_shift_set THEN OpX ELSE OpY
            IN v' = [[v EXCEPT ![OpX] = v[r] \div 2] EXCEPT ![VF] = v[r] % 2]]_vars

\* the scenario has run with skip_shift_set on, and V2 is 0x78
C26_Witness ==
    ShiftScenarioRun /\ config.quirks.skip_shift_set /\ v[2] = 120 /\ v[VF] = 0

\* the bit that 8XY1, 8XY2, 8XY3 give for the bits a and b
LogicBit(arm, a, b) ==
    IF arm = "8XY1" THEN Flag(a + b >= 1)
    ELSE IF arm = "8XY2" THEN Flag(a + b = 2)
    ELSE Flag(a + b = 1)

\* C27: 8XY1/8XY2/8XY3 store the bitwise OR/AND/XOR of V[x] and V[y] in V[x];
\* with skip_reset_vf off VF is 0 after the instruction, with it on VF keeps
\* the value it had before (x /= F); no other register changes.
C27_Logic ==
    [][(Done({"8XY1", "8XY2", "8XY3"}) /\ OpX # VF) =>
         /\ v'[OpX] \in 0 .. 255
         /\ \A k \in 0 .. 7 :
              BitOf(v'[OpX], k) = LogicBit(Arm(OpcodeAt(memory, pc)),
                                           BitOf(v[OpX], k), BitOf(v[OpY], k))
         /\ v'[VF] = IF config.quirks.skip_reset_vf THEN v[VF] ELSE 0
         /\ \A r \in Regs \ {OpX, VF} : v'[r] = v[r]]_vars

\* 8233 on V2 = 15, V3 = 255 with skip_reset_vf on has left V2 = 240 and VF = 1
C27_Witness ==
    /\ rom = RomOps(<<Op(8, 2, 3, 3)>>) /\ epc = "guard" /\ pc = ProgramStart + 8
    /\ config.quirks.skip_reset_vf /\ v[2] = 240 /\ v[3] = 255 /\ v[VF] = 1

\* C28: BNNN sets PC = nnn + V[0] when jump_with_vx is off and
\* PC = nnn + V[(nnn >> 8) & 0xF] when it is on, and changes no register, I,
\* stack, memory or frame-buffer cell.
C28_JumpOffset ==
    [][Done({"BNNN"}) =>
         LET word == OpcodeAt(memory, pc)
             nnn == word % 4096
             reg == IF config.quirks.jump_with_vx THEN (nnn \div 256) % 16 ELSE 0
         IN /\ pc' = nnn + v[reg]
            /\ UNCHANGED <<v, i, stack, memory, frame_buffer>>]_vars

\* B346 with jump_with_vx on, V0 = 1 and V3 = 240: PC = 0x346 + 240
C28_Witness ==
    /\ rom = RomOps(<<Op(12, 0, 15, 15), Op(11, 3, 4, 6)>>) /\ epc = "guard"
    /\ config.quirks.jump_with_vx /\ v[0] = 1 /\ v[3] = 240
    /\ pc = 3 * 256 + 70 + 240

\* FX55 and then FX65 with the same x have run, after the ANNN that set I.
\* FX65 writes no memory and FX55 no register, so the block FX55 wrote still
\* holds the registers as they were before the pair.
RoundTripRun ==
    /\ epc = "guard" /\ pc = ProgramStart + 12
    /\ Arm(OpcodeAt(memory, ProgramStart + 6)) = "ANNN"
    /\ Arm(OpcodeAt(memory, ProgramStart + 8)) = "FX55"
    /\ Arm(OpcodeAt(memory, ProgramStart + 10)) = "FX65"
RoundTripX == FieldX(OpcodeAt(memory, ProgramStart + 8))
RoundTripI == FieldNNN(OpcodeAt(memory, ProgramStart + 6))

\* C29: with all quirks off, FX55 immediately followed by FX65 (same x)
\* leaves the register file unchanged and I advanced by 2 * (x + 1).
C29_RoundTrip ==
    (RoundTripRun /\ config.quirks = NoQuirks) =>
        /\ \A k \in 0 .. RoundTripX : v[k] = memory[RoundTripI + k]
        /\ i = RoundTripI + 2 * (RoundTripX + 1)

\* C29 as the code has it: without preserve_index I has advanced by
\* 2 * (x + 1), and FX65 has loaded V0..Vx from the x + 1 bytes that follow
\* the block FX55 wrote; with preserve_index the registers are as before and
\* I is where it was.
C29_RoundTripNextBlock ==
    RoundTripRun =>
        IF config.quirks.preserve_index
        THEN /\ \A k \in 0 .. RoundTripX : v[k] = memory[RoundTripI + k]
             /\ i = RoundTripI
        ELSE /\ \A k \in 0 .. RoundTripX : v[k] = memory[RoundTripI + RoundTripX + 1 + k]
             /\ i = RoundTripI + 2 * (RoundTripX + 1)

\* F255 then F265 from I = FontStart + 2 without preserve_index: V2 was 255
\* and is now the font byte that follows the block
C29_Witness ==
    /\ RoundTripRun /\ ~config.quirks.preserve_index
    /\ RoundTripX = 2 /\ RoundTripI = FontStart + 2
    /\ memory[FontStart + 4] = 255 /\ v[2] = DefaultFont[8] /\ v[2] # 255
    /\ i = FontStart + 8

\* where FX55 and FX65 leave I
IndexAfter == IF config.quirks.preserve_index THEN i ELSE i + OpX + 1

\* C30: FX55 writes memory[I + k] = V[k] and FX65 loads V[k] = memory[I + k]
\* for exactly k = 0..x, with the I of the start of the instruction;
\* afterwards I is unchanged under preserve_index and I + x + 1 without it;
\* the memory outside I..I+x (FX55) and the registers above x (FX65), like
\* the registers (FX55) and the memory (FX65), are unchanged.
C30_DumpAndLoad ==
    /\ [][Done({"FX55"}) =>
            /\ memory' = [a \in DOMAIN memory |->
                            IF a \in i .. (i + OpX) THEN v[a - i] ELSE memory[a]]
            /\ v' = v
            /\ i' = IndexAfter]_vars
    /\ [][Done({"FX65"}) =>
            /\ v' = [r \in Regs |-> IF r <= OpX THEN memory[i + r] ELSE v[r]]
            /\ memory' = memory
            /\ i' = IndexAfter]_vars

\* F355 from I = FontStart + 2 with V2 = 15, V3 = 240 and no quirk: the four
\* bytes are written, the byte after them is the font's, and I is past them
C30_Witness ==
    /\ rom = RomOps(<<OpLDI(FontStart + 2), Op(15, 3, 5, 5), Op(15, 3, 6, 5)>>)
    /\ config.quirks = NoQuirks /\ epc = "guard" /\ pc = ProgramStart + 10
    /\ v[2] = 15 /\ v[3] = 240
    /\ memory[FontStart + 2] = 0 /\ memory[FontStart + 4] = 15 /\ memory[FontStart + 5] = 240
    /\ memory[FontStart + 6] = DefaultFont[7]
    /\ i = FontStart + 6

\* C31: FX33 writes the decimal digits of V[x]: afterwards
\* memory[I] = V[x] div 100, memory[I+1] = (V[x] div 10) mod 10 and
\* memory[I+2] = V[x] mod 10, for every V[x] in 0..255, with I, V and every
\* other memory byte unchanged.
C31_StoreBCD ==
    [][Done({"FX33"}) =>
         /\ memory' = [a \in DOMAIN memory |->
                         IF a = i THEN v[OpX] \div 100
                         ELSE IF a = i + 1 THEN (v[OpX] \div 10) % 10
                         ELSE IF a = i + 2 THEN v[OpX] % 10
                         ELSE memory[a]]
         /\ UNCHANGED <<i, v>>]_vars

\* F233 of V2 = 123 at I = FontStart + 2 has written 1, 2, 3 and left the
\* font bytes on either side
C31_Witness ==
    /\ epc = "guard" /\ pc = ProgramStart + 6
    /\ Arm(OpcodeAt(memory, ProgramStart + 4)) = "FX33"
    /\ v[2] = 123 /\ i = FontStart + 2
    /\ memory[i] = 1 /\ memory[i + 1] = 2 /\ memory[i + 2] = 3
    /\ memory[i - 1] = DefaultFont[i] /\ memory[i + 3] = DefaultFont[i + 4]

\* C32: the index register I is a 16-bit quantity in every reachable state;
\* the address arithmetic of FX1E and of the FX55 / FX65 increment wraps
\* modulo the addressable range, and FX1E never changes VF.
C32_IndexIs16Bit ==
    /\ [](i \in 0 .. (Pow2(16) - 1))
    /\ [][Done({"FX1E"}) => (i' = (i + v[OpX]) % Pow2(16) /\ v'[VF] = v[VF])]_vars
    /\ [][(Done({"FX55", "FX65"}) /\ ~config.quirks.preserve_index)
            => i' = (i + OpX + 1) % Pow2(16)]_vars

\* what the code has: I is a usize, FX1E adds in that width and changes no
\* register
C32_IndexIsUsize ==
    /\ [](i \in 0 .. UsizeMax)
    /\ [][Done({"FX1E"}) => (i' = (i + v[OpX]) % (UsizeMax + 1) /\ v' = v)]_vars

\* F065 at I = 2^16 + 2 is fatal, where a 16-bit I would be 2
C32_Diverges ==
    /\ rom = RomIndex /\ epc = "panic" /\ i = Pow2(16) + 2
    /\ failure = <<"AddrOutOfBounds", Pow2(16) + 2>>

(***************************************************************************)
(* Properties of Memory (SpecMemory).                                      *)
(***************************************************************************)
\* the call of the step is one of ops
Called(ops) == outcome' # outcome /\ outcome'.op \in ops

\* C13: read_byte and write_byte at an address past the end fail with
\* AddrOutOfBounds(addr); read_buf and write_buf of a range whose last address
\* addr + len - 1 is past the end fail with RangeOutOfBounds(addr, len); a
\* failed write changes no byte; a range ending on the last byte succeeds.
C13_BoundsChecked ==
    [][LET o == outcome'
           length == Cardinality(DOMAIN probe)
       IN /\ (Called({"read_byte", "write_byte"}) /\ o.addr >= length)
               => (~o.ok /\ o.err = <<"AddrOutOfBounds", o.addr>>)
          /\ (Called({"read_buf", "write_buf"}) /\ o.len >= 1
              /\ o.addr + o.len - 1 >= length)
               => (~o.ok /\ o.err = <<"RangeOutOfBounds", o.addr, o.len>>)
          /\ (Called({"write_byte", "write_buf"}) /\ ~o.ok) => probe' = probe
          /\ (Called({"read_buf", "write_buf"}) /\ o.len >= 1
              /\ o.addr + o.len - 1 = length - 1)
               => o.ok
      ]_vars

\* C14: read_buf of length 0 returns the empty view and write_buf of the empty
\* slice returns Ok, at every address, and the memory is unchanged.
C14_EmptyRanges ==
    [][LET o == outcome'
       IN /\ (Called({"read_buf"}) /\ o.len = 0)
               => (o.ok /\ o.val = <<>> /\ probe' = probe)
          /\ (Called({"write_buf"}) /\ o.len = 0) => (o.ok /\ probe' = probe)
      ]_vars

\* the empty slice was written at the top of usize, past the end
C14_Witness ==
    /\ outcome # <<>> /\ outcome.op = "write_buf" /\ outcome.len = 0
    /\ outcome.addr = UsizeMax /\ outcome.ok

\* C15: after a write_buf that succeeded, read_buf of the same range returns
\* the data and every byte outside the range is as before, whatever earlier
\* writes left there; a memory just made reads 0 everywhere.
C15_WriteReadRoundTrip ==
    /\ [](outcome = <<>> =>
            \A a \in DOMAIN probe : ReadByte(probe, a) = [ok |-> TRUE, val |-> 0])
    /\ [][LET o == outcome'
          IN (Called({"write_buf"}) /\ o.ok)
               => /\ ReadBuf(probe', o.addr, o.len) = [ok |-> TRUE, val |-> o.data]
                  /\ \A a \in DOMAIN probe :
                       (a < o.addr \/ a >= o.addr + o.len) => probe'[a] = probe[a]
                  /\ DOMAIN probe' = DOMAIN probe
         ]_vars

\* one byte written over the first of two bytes written before
C15_Witness ==
    /\ outcome # <<>> /\ outcome.op = "write_buf" /\ outcome.ok
    /\ outcome.addr = 0 /\ outcome.data = <<9>> /\ probe = (0 :> 9 @@ 1 :> 7)

(***************************************************************************)
(* Properties of the decoder (SpecDecode).                                 *)
(***************************************************************************)
\* C17: every 16-bit word that matches none of the 34 patterns of the
\* dispatch table is rejected by the decoder with InvalidOpcode(word).
C17_RejectsUndefined ==
    (outcome # <<>> /\ Arm(probe) = "none") => outcome = InvalidOpcodeError(probe)

\* the word a variant and the fields it carries encode to; a nibble the
\* variant does not carry is the one the pattern fixes, or 0
Encode(ins) ==
    LET a == ins.args
        XNN(t) == t * 4096 + a[1] * 256 + a[2]
        XY(t, n) == t * 4096 + a[1] * 256 + a[2] * 16 + n
        X(t, nn) == t * 4096 + a[1] * 256 + nn
    IN CASE ins.op = "Clear" -> 224
         [] ins.op = "Return" -> 238
         [] ins.op = "Jump" -> 4096 + a[1]
         [] ins.op = "Call" -> 2 * 4096 + a[1]
         [] ins.op = "IfVxEq" -> XNN(3)
         [] ins.op = "IfVxNotEq" -> XNN(4)
         [] ins.op = "IfVxEqVy" -> XY(5, 0)
         [] ins.op = "SetVx" -> XNN(6)
         [] ins.op = "AddToVx" -> XNN(7)
         [] ins.op = "SetVxToVy" -> XY(8, 0)
         [] ins.op = "SetVxOrVy" -> XY(8, 1)
         [] ins.op = "SetVxAndVy" -> XY(8, 2)
         [] ins.op = "SetVxXorVy" -> XY(8, 3)
         [] ins.op = "AddVyToVx" -> XY(8, 4)
         [] ins.op = "SubVyFromVx" -> XY(8, 5)
         [] ins.op = "RightShiftVx" -> X(8, 6)
         [] ins.op = "SubVxFromVy" -> XY(8, 7)
         [] ins.op = "LeftShiftVx" -> X(8, 14)
         [] ins.op = "IfVxNotEqVy" -> XY(9, 0)
         [] ins.op = "SetI" -> 10 * 4096 + a[1]
         [] ins.op = "JumpWithOffset" -> 11 * 4096 + a[1]
         [] ins.op = "SetVxRand" -> XNN(12)
         [] ins.op = "Draw" -> XY(13, a[3])
         [] ins.op = "IfKeyPressed" -> X(14, 158)
         [] ins.op = "IfKeyNotPressed" -> X(14, 161)
         [] ins.op = "SetVxToDelay" -> X(15, 7)
         [] ins.op = "SetVxToKey" -> X(15, 10)
         [] ins.op = "SetDelayToVx" -> X(15, 21)
         [] ins.op = "SetSoundToVx" -> X(15, 24)
         [] ins.op = "AddVxToI" -> X(15, 30)
         [] ins.op = "SetIToCharInVx" -> X(15, 41)
         [] ins.op = "StoreVxBCDAtI" -> X(15, 51)
         [] ins.op = "VDump" -> X(15, 85)
         [] ins.op = "VLoad" -> X(15, 101)

\* C18: for every word the decoder accepts, re-encoding the variant with
\* the fields it carries gives the word back, so no two accepted words
\* decode to the same variant with the same fields.
C18_RoundTrip ==
    (outcome # <<>> /\ outcome.ok) => Encode(outcome) = probe

=============================================================================
